---- MODULE Spec2Model ----
(***************************************************************************)
(* Host agent of the a2a-retail-demo: HostAgentExecutor.execute driving    *)
(* HostAgent.stream (agent-card pre-check, LLM routing decision, single or *)
(* parallel downstream A2A calls, combination of the responses).           *)
(*                                                                         *)
(* Text is modelled as a sequence of word tokens, so that concatenation,   *)
(* containment and equality of messages are computed, not assumed.         *)
(***************************************************************************)
EXTENDS Integers, Sequences, FiniteSets, TLC

VARIABLES
    pc,                    \* position of execute()/stream() in the current request
    nqueries,              \* number of requests accepted so far by execute()
    agent_cards,           \* HostAgent._agent_cards: urls whose card is cached
    sessions,              \* session ids known to the runner's session service
    query,                 \* stream(query, ...)
    session_id,            \* stream(..., session_id) = task.contextId
    context_id,            \* local context_id of stream()
    inventory_card,        \* local inventory_card is truthy
    customer_service_card, \* local customer_service_card is truthy
    routing_decision,      \* <<>> is None, <<t>> is the text t
    tasks,                 \* per downstream agent: the state of its call coroutine
    ready,                 \* asyncio ready queue of created, not yet started tasks
    calls,                 \* log of _call_agent_with_a2a invocations
    sent,                  \* log of A2A messages handed to client.send_message
    settle_order,          \* agents in the order their calls finished
    responses,             \* dict returned by call_agents_parallel
    response,              \* local response of the single-route branches
    events,                \* events yielded by stream(), in order
    stream_outcome,        \* "none" | "running" | "returned" | "raised"
    task_state,            \* A2A task state kept by the TaskUpdater
    event_queue,           \* what execute() enqueued on the EventQueue
    raised_at,             \* where stream() itself met an exception, "" if nowhere
    probed,                \* card fetches made by this run: [url, ok] per GET of a card
    down_seen,             \* urls whose card fetch has failed in some run so far
    cancel_rejected,       \* cancel() was called during this request and raised
    message,               \* frontend: the text the user typed, a sequence of characters
    predicted_agent,       \* frontend: StreamingHandler's prediction for message, "" if none
    app_predicted_agent,   \* frontend: on_send_message's prediction for message, "" if none
    session_events,        \* per session id: the exchanges the session service holds
    llm_answers,           \* what the model has answered so far, per input it was given
    status_i,              \* get_agent_status: 0 not running, 1..2 loop index, 3 returning
    lines,                 \* get_agent_status: its local list lines
    agent_status,          \* what get_agent_status returned last, <<>> if nothing yet
    status_calls,          \* number of get_agent_status calls started so far
    inv_pc,                \* inventory agent: position of execute()/stream()
    inv_n,                 \* inventory agent: number of requests so far
    inv_query,             \* inventory agent: the user input of the request
    inv_events,            \* inventory agent: events yielded by stream(), in order
    inv_task_state,        \* inventory agent: A2A task state kept by the TaskUpdater
    inv_event_queue,       \* inventory agent: what execute() enqueued
    inv_consumed,          \* inventory agent: runner events taken by the loop of stream()
    tool_called,           \* inventory agent: local tool_called of stream()
    final_response,        \* inventory agent: local final_response, <<>> is None
    tool_n,                \* inventory tools: number of tool calls so far
    tool_call,             \* inventory tools: <<the last call and the backend's answer>>
    tool_result,           \* inventory tools: <<what the last call gave its caller>>
    cs_pc,                 \* customer service agent: position of execute()/stream()
    cs_n,                  \* customer service agent: number of requests so far
    cs_query,              \* customer service agent: the user input of the request
    cs_events,             \* customer service agent: events yielded by stream(), in order
    cs_task_state,         \* customer service agent: A2A task state kept by the TaskUpdater
    cs_event_queue,        \* customer service agent: what execute() enqueued
    cs_steps,              \* customer service agent: nodes the graph has run in this run
    graph_next,            \* customer service agent: the node the graph runs next
    has_called_tools,      \* customer service agent: local has_called_tools of stream()
    current_agent,         \* CLI client: self.current_agent
    cli_running,           \* CLI client: the loop of run() is going on
    cli_input,             \* CLI client: the last line read at the prompt, word by word
    cli_ended_by,          \* CLI client: what ended the loop
    cli_sends,             \* CLI client: the calls of manager.send_to_agent, in order
    cli_n                  \* CLI client: number of lines read so far

vars == <<pc, nqueries, agent_cards, sessions, query, session_id, context_id,
          probed, down_seen, cancel_rejected,
          message, predicted_agent, app_predicted_agent, session_events, llm_answers,
          status_i, lines, agent_status, status_calls,
          inv_pc, inv_n, inv_query, inv_events, inv_task_state, inv_event_queue,
          inv_consumed, tool_called, final_response,
          tool_n, tool_call, tool_result,
          cs_pc, cs_n, cs_query, cs_events, cs_task_state, cs_event_queue,
          cs_steps, graph_next, has_called_tools,
          current_agent, cli_running, cli_input, cli_ended_by, cli_sends, cli_n,
          inventory_card, customer_service_card, routing_decision, tasks, ready,
          calls, sent, settle_order, responses, response, events,
          stream_outcome, task_state, event_queue, raised_at>>

\* What execute(), stream() and cancel() of the host agent work on.
hostVars == <<pc, nqueries, agent_cards, sessions, query, session_id, context_id,
              probed, down_seen, cancel_rejected, inventory_card,
              customer_service_card, routing_decision, tasks, ready, calls, sent,
              settle_order, responses, response, events, stream_outcome,
              task_state, event_queue, raised_at>>

\* What the frontend's routing predictions work on.
frontendVars == <<message, predicted_agent, app_predicted_agent>>

\* What the runner of the routing agent and its session service work on.
runnerVars == <<session_events, llm_answers>>

\* What get_agent_status works on, next to the card cache.
statusVars == <<status_i, lines, agent_status, status_calls>>

\* The variables of the host agent that get_agent_status leaves alone.
hostVarsButCards == <<pc, nqueries, sessions, query, session_id, context_id, probed,
                      cancel_rejected, inventory_card, customer_service_card,
                      routing_decision, tasks, ready, calls, sent, settle_order,
                      responses, response, events, stream_outcome, task_state,
                      event_queue, raised_at>>

\* What the CLI client works on.
cliVars == <<current_agent, cli_running, cli_input, cli_ended_by, cli_sends, cli_n>>

\* What execute() and stream() of the customer service agent work on.
customerServiceVars == <<cs_pc, cs_n, cs_query, cs_events, cs_task_state,
                         cs_event_queue, cs_steps, graph_next, has_called_tools>>

\* What a tool function of the inventory agent works on.
toolVars == <<tool_n, tool_call, tool_result>>

\* What execute() and stream() of the inventory agent work on.
inventoryVars == <<inv_pc, inv_n, inv_query, inv_events, inv_task_state,
                   inv_event_queue, inv_consumed, tool_called, final_response>>

\* The variables of the components next to the host's execute() and stream().
extraVars == <<statusVars, inventoryVars, toolVars, customerServiceVars, cliVars>>

\* All but what get_agent_status works on.
restOfStatus == <<hostVarsButCards, frontendVars, runnerVars, inventoryVars, toolVars,
    customerServiceVars, cliVars>>

\* All but what the inventory agent works on.
restOfInventory == <<hostVars, frontendVars, runnerVars, statusVars, toolVars,
    customerServiceVars, cliVars>>

\* All but what the customer service agent works on.
restOfCustomerService ==
    <<hostVars, frontendVars, runnerVars, statusVars, inventoryVars, toolVars, cliVars>>

\* All but what the CLI client works on.
restOfCli ==
    <<hostVars, frontendVars, runnerVars, statusVars, inventoryVars, toolVars,
      customerServiceVars>>

\* All but what the tool functions work on.
restOfTools == <<hostVars, frontendVars, runnerVars, statusVars, inventoryVars,
    customerServiceVars, cliVars>>

-----------------------------------------------------------------------------
(* Bounds of the model *)

MaxQueries == 2

\* Longest message typed into the frontend, in characters.
MaxMessageLen == 15

\* Most runs of the routing agent, over all sessions.
MaxTurns == 2

\* Most calls of get_agent_status.
MaxStatusCalls == 4

\* Most events the runner of the inventory agent produces in one run.
MaxRunnerEvents == 2

\* Most calls of tool functions of the inventory agent.
MaxToolCalls == 2

\* The recursion limit of the customer service graph: most nodes run in one run.
MaxGraphSteps == 3

\* Most lines the CLI client reads at its prompt.
MaxInputs == 3

-----------------------------------------------------------------------------
(* Program constants *)

INVENTORY_AGENT_URL == "http://localhost:8001"

CUSTOMER_SERVICE_AGENT_URL == "http://localhost:8002"

AgentUrls == {INVENTORY_AGENT_URL, CUSTOMER_SERVICE_AGENT_URL}

user_id == "host_agent_user"

ROUTE_TO_BOTH == "ROUTE_TO_BOTH"

ROUTE_TO_INVENTORY == "ROUTE_TO_INVENTORY"

ROUTE_TO_CUSTOMER_SERVICE == "ROUTE_TO_CUSTOMER_SERVICE"

-----------------------------------------------------------------------------
(* Inputs *)

EmptyQuery == ""

\* The requests execute() is given: user input and the task's contextId.
Requests ==
    {[query |-> "What smart TVs do you have?", contextId |-> "sess-1"],
     [query |-> "What are your hours?", contextId |-> "sess-2"]}

T1 == <<"We", "have", "3", "models.">>

T2 == <<"Our", "hours", "are", "9-9">>

\* The session ids the requests come with.
SessionIds == {r.contextId : r \in Requests}

Reasons == {"Connection refused", "ReadTimeout"}

\* Final responses of the routing model: None is <<>>, a text t is <<t>>.
RoutingDecisions ==
    {<<>>,
     << <<>> >>,
     << <<"unsure">> >>,
     << <<ROUTE_TO_BOTH>> >>,
     << <<ROUTE_TO_INVENTORY>> >>,
     << <<ROUTE_TO_CUSTOMER_SERVICE>> >>,
     << <<ROUTE_TO_INVENTORY, ROUTE_TO_BOTH>> >>,
     << <<ROUTE_TO_CUSTOMER_SERVICE, ROUTE_TO_INVENTORY>> >>,
     << <<"unsure", ROUTE_TO_CUSTOMER_SERVICE>> >>}

\* What a downstream endpoint can answer to one call.
Outcomes ==
    [kind : {"raise"}, texts : {<<>>}, reason : Reasons]
    \cup [kind : {"message"}, texts : {<<T1>>, <<T2>>}, reason : {""}]
    \cup [kind : {"task_status"}, texts : {<<T2>>}, reason : {""}]
    \cup [kind : {"task_artifacts"}, texts : {<<>>, <<T1>>, <<T1, T2>>}, reason : {""}]
    \cup [kind : {"task_bare", "other"}, texts : {<<>>}, reason : {""}]

-----------------------------------------------------------------------------
(* Text helpers *)

\* Python's "in" on texts, at the granularity of tokens.
Contains(text, part) ==
    \E i \in 0..(Len(text) - Len(part)) :
        \A j \in 1..Len(part) : text[i + j] = part[j]

RECURSIVE Join(_, _)
\* sep.join(texts)
Join(sep, texts) ==
    IF texts = <<>> THEN <<>>
    ELSE IF Len(texts) = 1 THEN texts[1]
    ELSE texts[1] \o sep \o Join(sep, Tail(texts))

NL == <<"\n">>

-----------------------------------------------------------------------------
(* Events yielded by HostAgent.stream *)

Event(type, agent, text) == [type |-> type, agent |-> agent, text |-> text]

StatusAnalyzing == Event("status", <<>>, <<"Analyzing", "your", "request...">>)

ErrUnableToDetermine == Event("error", <<>>, <<"Unable", "to", "determine", "routing">>)

ErrParallelOffline ==
    Event("error", <<>>, <<"One", "or", "more", "agents", "are", "offline.",
                           "Cannot", "execute", "parallel", "request.">>)

ErrInventoryOffline ==
    Event("error", <<>>, <<"Inventory", "agent", "is", "currently", "offline.",
                           "Please", "try", "again", "later.">>)

\* Faulty variant: the message carries the reason the card fetch failed with.
ErrCustomerServiceOfflineWithReason ==
    Event("error", <<>>, <<"Customer", "service", "agent", "is", "offline:",
                           "Connection refused">>)

ErrCustomerServiceOffline ==
    Event("error", <<>>, <<"Customer", "service", "agent", "is", "currently", "offline.",
                           "Please", "try", "again", "later.">>)

ErrCouldNotDetermine ==
    Event("error", <<>>, <<"I", "couldn't", "determine", "which", "agent", "should",
                           "handle", "your", "request.", "Please", "try", "rephrasing",
                           "your", "question.">>)

RoutingBoth ==
    Event("routing", <<"both">>, <<"Coordinating", "with", "both", "inventory", "and",
                                   "customer", "service...">>)

RoutingInventory ==
    Event("routing", <<"inventory">>, <<"Checking", "our", "inventory", "system...">>)

RoutingCustomerService ==
    Event("routing", <<"customer", "service">>,
          <<"Connecting", "you", "with", "customer", "service...">>)

AgentResponseEvent(agent) == Event("agent_response", agent, <<>>)

ResultEvent(content) == Event("result", <<>>, content)

-----------------------------------------------------------------------------
(* HostAgent._call_agent_with_a2a *)

Return(text) == [kind |-> "return", val |-> text]

Raise(reason) == [kind |-> "raise", val |-> <<reason>>]

NoResult == [kind |-> "none", val |-> <<>>]

\* Faulty variant: a fixed message that drops the exception's text.
ErrorCommunicatingFixed(e) == <<"Error", "communicating", "with", "agent">>

\* f"Error communicating with agent: {str(e)}"
ErrorCommunicating(e) == <<"Error", "communicating", "with", "agent:", e>>

\* The text taken from the object client.send_message returned.
ExtractText(result) ==
    CASE result.kind = "task_artifacts" ->
            IF result.texts # <<>> THEN Join(NL, result.texts)
            ELSE <<"Task", "completed", "with", "no", "text", "response">>
      [] result.kind = "task_status" -> result.texts[1]
      [] result.kind = "task_bare" -> <<"Task", "<id>", "status:", "<state>">>
      [] result.kind = "message" -> result.texts[1]
      [] OTHER -> <<"Received", "response", "but", "unable", "to", "extract", "text">>

\* Faulty variant: an error is swallowed into an empty string.
CallAgentWithA2AEmptyOnError(outcome) ==
    IF outcome.kind = "raise" THEN Return(<<>>) ELSE Return(ExtractText(outcome))

\* Faulty variant: no try/except around the call, the exception propagates.
CallAgentWithA2ANoCatch(outcome) ==
    IF outcome.kind = "raise" THEN Raise(outcome.reason) ELSE Return(ExtractText(outcome))

\* The whole call: every exception is caught and turned into a returned string.
CallAgentWithA2A(outcome) ==
    IF outcome.kind = "raise"
    THEN Return(ErrorCommunicating(outcome.reason))
    ELSE Return(ExtractText(outcome))

-----------------------------------------------------------------------------
(* HostAgent.call_agents_parallel *)

\* Faulty variant: the results taken in the order of completion (as_completed).
GatherAsCompleted(tk, order) == <<tk[order[1]].res, tk[order[2]].res>>

\* asyncio.gather(inventory_task, customer_service_task, return_exceptions=True):
\* the results in the order of the arguments, whatever the order of completion.
Gather(tk, order) == <<tk[INVENTORY_AGENT_URL].res, tk[CUSTOMER_SERVICE_AGENT_URL].res>>

\* Faulty variant: an error in one slot is handed out in both.
ParallelResponsesErrorInBoth(gathered) ==
    LET bad == {i \in 1..2 : gathered[i].val # <<>> /\ Head(gathered[i].val) = "Error"} IN
    IF bad = {}
    THEN [inventory |-> gathered[1].val, customer_service |-> gathered[2].val]
    ELSE LET e == gathered[CHOOSE i \in bad : TRUE].val
         IN [inventory |-> e, customer_service |-> e]

\* The isinstance(..., Exception) conversions and the returned dict.
ParallelResponses(gathered) ==
    [inventory |->
        IF gathered[1].kind = "raise"
        THEN <<"Error", "from", "inventory", "agent:">> \o gathered[1].val
        ELSE gathered[1].val,
     customer_service |->
        IF gathered[2].kind = "raise"
        THEN <<"Error", "from", "customer", "service", "agent:">> \o gathered[2].val
        ELSE gathered[2].val]

NoResponses == [inventory |-> <<>>, customer_service |-> <<>>]

-----------------------------------------------------------------------------
(* HostAgent.stream: pure parts *)

\* Faulty variant: the runner's user id is passed on instead of the session id.
ContextIdUserId(sid) == user_id

ContextId(sid) == sid

In(token, text) == \E i \in 1..Len(text) : text[i] = token

\* Faulty variant: a token counts only when it is the whole decision.
BranchExactMatch(rd) ==
    IF rd = <<>> \/ rd[1] = <<>> THEN "none"
    ELSE IF rd[1] = <<ROUTE_TO_INVENTORY>> THEN "inventory"
    ELSE IF rd[1] = <<ROUTE_TO_CUSTOMER_SERVICE>> THEN "customer_service"
    ELSE IF rd[1] = <<ROUTE_TO_BOTH>> THEN "both"
    ELSE "undetermined"

\* The branch of stream() taken for a routing decision.
Branch(rd) ==
    IF rd = <<>> \/ rd[1] = <<>> THEN "none"
    ELSE IF In(ROUTE_TO_BOTH, rd[1]) THEN "both"
    ELSE IF In(ROUTE_TO_INVENTORY, rd[1]) THEN "inventory"
    ELSE IF In(ROUTE_TO_CUSTOMER_SERVICE, rd[1]) THEN "customer_service"
    ELSE "undetermined"

CombinedHeader ==
    <<"I've", "consulted", "both", "our", "inventory", "and", "customer", "service",
      "systems:", "\n", "\n">>

InventoryHeading == <<"**Inventory", "Information:**", "\n">>

CustomerServiceHeading == <<"\n", "\n", "**Customer", "Service", "Information:**", "\n">>

CombinedResponse(r) ==
    CombinedHeader \o InventoryHeading \o r.inventory
        \o CustomerServiceHeading \o r.customer_service

\* Faulty variant: the single-route result is wrapped in a heading.
SingleResultWrapped(resp) == InventoryHeading \o resp

\* The value yielded as the content of the single-route result event.
SingleResult(resp) == resp

\* except Exception as exc: yield an error event.
StreamExcept(exc) ==
    [caught |-> TRUE,
     event |-> Event("error", <<>>, <<"Error", "coordinating", "request:">> \o exc)]

-----------------------------------------------------------------------------
(* HostAgentExecutor.execute: what one stream event makes the executor do *)

Update(kind, state, text) == [kind |-> kind, state |-> state, text |-> text]

\* Faulty variant: the artifact of a result is added after the task was completed.
ExecutorUpdatesArtifactLast(ev) ==
    CASE ev.type = "result" ->
            <<Update("status", "completed", <<>>), Update("artifact", "working", ev.text)>>
      [] ev.type = "error" -> <<Update("status", "failed", <<"Error:">> \o ev.text)>>
      [] OTHER -> <<Update("status", "working", ev.text)>>

ExecutorUpdates(ev) ==
    CASE ev.type = "status" -> <<Update("status", "working", ev.text)>>
      [] ev.type = "routing" ->
            <<Update("status", "working",
                     <<"Routing", "to">> \o ev.agent \o <<"agent:">> \o ev.text)>>
      [] ev.type = "agent_response" ->
            <<Update("status", "working",
                     <<"Received", "response", "from">> \o ev.agent \o <<"agent">>)>>
      [] ev.type = "result" ->
            <<Update("artifact", "working", ev.text), Update("status", "completed", <<>>)>>
      [] ev.type = "error" ->
            <<Update("status", "failed", <<"Error:">> \o ev.text)>>
      [] OTHER -> <<>>

ExecutorBreaks(ev) == ev.type \in {"result", "error"}

\* Faulty variant: a result whose text reports an error fails the task.
ExecutorStateFailedOnErrorText(ev) ==
    CASE ev.type = "result" ->
            IF ev.text # <<>> /\ Contains(ev.text, <<"Error", "communicating">>)
            THEN "failed" ELSE "completed"
      [] ev.type = "error" -> "failed"
      [] OTHER -> "working"

ExecutorState(ev) ==
    CASE ev.type = "result" -> "completed"
      [] ev.type = "error" -> "failed"
      [] OTHER -> "working"

-----------------------------------------------------------------------------
(* State machine *)

NoOutcome == [kind |-> "none", texts |-> <<>>, reason |-> ""]

NoTask == [st |-> "none", outcome |-> NoOutcome, res |-> NoResult]

NoTasks == [a \in AgentUrls |-> NoTask]

Init ==
    /\ pc = "idle"
    /\ nqueries = 0
    /\ agent_cards = {}
    /\ sessions = {}
    /\ query = EmptyQuery
    /\ session_id = ""
    /\ context_id = ""
    /\ inventory_card = FALSE
    /\ customer_service_card = FALSE
    /\ routing_decision = <<>>
    /\ tasks = NoTasks
    /\ ready = <<>>
    /\ calls = <<>>
    /\ sent = <<>>
    /\ settle_order = <<>>
    /\ responses = NoResponses
    /\ response = <<>>
    /\ events = <<>>
    /\ stream_outcome = "none"
    /\ task_state = "none"
    /\ event_queue = <<>>
    /\ raised_at = ""
    /\ probed = {}
    /\ down_seen = {}
    /\ cancel_rejected = FALSE
    /\ message = <<>>
    /\ predicted_agent = ""
    /\ app_predicted_agent = ""
    /\ session_events = [sid \in SessionIds |-> <<>>]
    /\ llm_answers = {}
    /\ status_i = 0
    /\ lines = <<>>
    /\ agent_status = <<>>
    /\ status_calls = 0
    /\ inv_pc = "idle"
    /\ inv_n = 0
    /\ inv_query = EmptyQuery
    /\ inv_events = <<>>
    /\ inv_task_state = "none"
    /\ inv_event_queue = <<>>
    /\ inv_consumed = 0
    /\ tool_called = FALSE
    /\ final_response = <<>>
    /\ tool_n = 0
    /\ tool_call = <<>>
    /\ tool_result = <<>>
    /\ cs_pc = "idle"
    /\ cs_n = 0
    /\ cs_query = EmptyQuery
    /\ cs_events = <<>>
    /\ cs_task_state = "none"
    /\ cs_event_queue = <<>>
    /\ cs_steps = 0
    /\ graph_next = "input"
    /\ has_called_tools = FALSE
    /\ current_agent = "host"
    /\ cli_running = TRUE
    /\ cli_input = <<>>
    /\ cli_ended_by = ""
    /\ cli_sends = <<>>
    /\ cli_n = 0

\* The locals of one execute()/stream() run, as a fresh run finds them.
FreshLocals ==
    /\ context_id' = ""
    /\ inventory_card' = FALSE
    /\ customer_service_card' = FALSE
    /\ routing_decision' = <<>>
    /\ tasks' = NoTasks
    /\ ready' = <<>>
    /\ calls' = <<>>
    /\ sent' = <<>>
    /\ settle_order' = <<>>
    /\ responses' = NoResponses
    /\ response' = <<>>
    /\ events' = <<>>
    /\ raised_at' = ""
    /\ probed' = {}
    /\ cancel_rejected' = FALSE

Finished == pc \in {"idle", "done", "rejected"}

\* execute(): the request has no message or no user input.
ExecuteReject(hasMessage, q) ==
    /\ Finished
    /\ nqueries < MaxQueries
    /\ ~hasMessage \/ q = EmptyQuery
    /\ pc' = "rejected"
    /\ nqueries' = nqueries + 1
    /\ query' = EmptyQuery
    /\ session_id' = ""
    /\ stream_outcome' = "none"
    /\ task_state' = "none"
    /\ event_queue' = <<>>
    /\ FreshLocals
    /\ UNCHANGED <<frontendVars, runnerVars, extraVars, agent_cards, sessions, down_seen>>

\* execute(): a valid request; the task is created if needed and set to working.
ExecuteAccept(q, ctx, hasTask) ==
    /\ Finished
    /\ nqueries < MaxQueries
    /\ q # EmptyQuery
    /\ pc' = "session"
    /\ nqueries' = nqueries + 1
    /\ query' = q
    /\ session_id' = ctx
    /\ stream_outcome' = "running"
    /\ task_state' = "working"
    /\ event_queue' =
          (IF hasTask THEN <<>> ELSE <<Update("task", "submitted", <<>>)>>)
          \o <<Update("status", "working", <<>>)>>
    /\ FreshLocals
    /\ UNCHANGED <<frontendVars, runnerVars, extraVars, agent_cards, sessions, down_seen>>

\* stream() yields ev to the loop of execute(), which handles it.
Emit(ev, nextpc) ==
    /\ events' = Append(events, ev)
    /\ event_queue' = event_queue \o ExecutorUpdates(ev)
    /\ task_state' = ExecutorState(ev)
    /\ IF ExecutorBreaks(ev)
       THEN pc' = "done" /\ stream_outcome' = "returned"
       ELSE pc' = nextpc /\ UNCHANGED stream_outcome

\* An exception reaches the try/except of stream().
StreamRaises(exc) ==
    LET h == StreamExcept(exc) IN
    IF h.caught
    THEN Emit(h.event, "done")
    ELSE /\ stream_outcome' = "raised"
         /\ pc' = "done"
         /\ task_state' = "failed"
         /\ event_queue' = Append(event_queue,
                                  Update("status", "failed", <<"Internal", "error:">> \o exc))
         /\ UNCHANGED events

\* get_session / create_session, then context_id = session_id.
GetSession ==
    /\ pc = "session"
    /\ sessions' = sessions \cup {session_id}
    /\ context_id' = ContextId(session_id)
    /\ pc' = "probe_inv"
    /\ UNCHANGED <<frontendVars, runnerVars, extraVars, probed, down_seen,
                   cancel_rejected, raised_at, nqueries, agent_cards, query,
                   session_id, inventory_card, customer_service_card,
                   routing_decision, tasks, ready, calls, sent, settle_order,
                   responses, response, events, stream_outcome, task_state,
                   event_queue>>

\* The session service or the runner raises.
StreamInternalError(reason) ==
    /\ pc \in {"session", "classify"}
    /\ StreamRaises(<<reason>>)
    /\ raised_at' = pc
    /\ UNCHANGED <<frontendVars, runnerVars, extraVars, probed, down_seen,
                   cancel_rejected, nqueries, agent_cards, sessions, query,
                   session_id, context_id, inventory_card,
                   customer_service_card, routing_decision, tasks, ready,
                   calls, sent, settle_order, responses, response>>

\* Faulty variant: the outcome of the fetch is cached whatever it is.
CardsAfterCacheAlways(cards, url, probeOk) == cards \cup {url}

\* _get_agent_card(url): the cached card, or a probe that caches a card it gets.
CardsAfter(cards, url, probeOk) ==
    IF url \notin cards /\ probeOk THEN cards \cup {url} ELSE cards

CardOf(cards, url, probeOk) == url \in cards \/ probeOk

\* The GET of the card is made only when the url has no cached card.
Probe(url, ok) == [url |-> url, ok |-> ok]

ProbedAfter(log, cards, url, probeOk) ==
    IF url \notin cards THEN log \cup {Probe(url, probeOk)} ELSE log

\* The except branch of _get_agent_card ran for url: it logs and returns None.
DownSeenAfter(down, cards, url, probeOk) ==
    IF url \notin cards /\ ~probeOk THEN down \cup {url} ELSE down

ProbeInventory(probeOk) ==
    /\ pc = "probe_inv"
    /\ agent_cards' = CardsAfter(agent_cards, INVENTORY_AGENT_URL, probeOk)
    /\ inventory_card' = CardOf(agent_cards, INVENTORY_AGENT_URL, probeOk)
    /\ probed' = ProbedAfter(probed, agent_cards, INVENTORY_AGENT_URL, probeOk)
    /\ down_seen' = DownSeenAfter(down_seen, agent_cards, INVENTORY_AGENT_URL, probeOk)
    /\ pc' = "probe_cs"
    /\ UNCHANGED <<frontendVars, runnerVars, extraVars, cancel_rejected, raised_at,
                   nqueries, sessions, query, session_id, context_id,
                   customer_service_card, routing_decision, tasks, ready,
                   calls, sent, settle_order, responses, response, events,
                   stream_outcome, task_state, event_queue>>

ProbeCustomerService(probeOk) ==
    /\ pc = "probe_cs"
    /\ agent_cards' = CardsAfter(agent_cards, CUSTOMER_SERVICE_AGENT_URL, probeOk)
    /\ customer_service_card' = CardOf(agent_cards, CUSTOMER_SERVICE_AGENT_URL, probeOk)
    /\ probed' = ProbedAfter(probed, agent_cards, CUSTOMER_SERVICE_AGENT_URL, probeOk)
    /\ down_seen' = DownSeenAfter(down_seen, agent_cards, CUSTOMER_SERVICE_AGENT_URL, probeOk)
    /\ pc' = "status"
    /\ UNCHANGED <<frontendVars, runnerVars, extraVars, cancel_rejected, raised_at,
                   nqueries, sessions, query, session_id, context_id,
                   inventory_card, routing_decision, tasks, ready, calls,
                   sent, settle_order, responses, response, events,
                   stream_outcome, task_state, event_queue>>

YieldStatus ==
    /\ pc = "status"
    /\ Emit(StatusAnalyzing, "classify")
    /\ UNCHANGED <<frontendVars, runnerVars, extraVars, probed, down_seen,
                   cancel_rejected, raised_at, nqueries, agent_cards,
                   sessions, query, session_id, context_id, inventory_card,
                   customer_service_card, routing_decision, tasks, ready,
                   calls, sent, settle_order, responses, response>>

\* runner.run_async: the first final response with content, or none at all.
Classify(rd) ==
    /\ pc = "classify"
    /\ routing_decision' = rd
    /\ pc' = "route"
    /\ UNCHANGED <<frontendVars, runnerVars, extraVars, probed, down_seen,
                   cancel_rejected, raised_at, nqueries, agent_cards,
                   sessions, query, session_id, context_id, inventory_card,
                   customer_service_card, tasks, ready, calls, sent,
                   settle_order, responses, response, events, stream_outcome,
                   task_state, event_queue>>

\* Faulty variant: a decision without a routing token falls back to customer service.
RouteStepDefaultCustomerService(rd, invCard, csCard) ==
    CASE Branch(rd) = "both" ->
            IF ~invCard \/ ~csCard THEN <<ErrParallelOffline, "done">>
            ELSE <<RoutingBoth, "parallel">>
      [] Branch(rd) = "inventory" ->
            IF ~invCard THEN <<ErrInventoryOffline, "done">>
            ELSE <<RoutingInventory, "call_inventory">>
      [] OTHER ->
            IF ~csCard THEN <<ErrCustomerServiceOffline, "done">>
            ELSE <<RoutingCustomerService, "call_customer_service">>

\* Faulty variant: the cards are not looked at, every routed call is made.
RouteStepNoPreCheck(rd, invCard, csCard) ==
    CASE Branch(rd) = "none" -> <<ErrUnableToDetermine, "done">>
      [] Branch(rd) = "both" -> <<RoutingBoth, "parallel">>
      [] Branch(rd) = "inventory" -> <<RoutingInventory, "call_inventory">>
      [] Branch(rd) = "customer_service" -> <<RoutingCustomerService, "call_customer_service">>
      [] OTHER -> <<ErrCouldNotDetermine, "done">>

\* Faulty variant: with one card missing the both route calls the agent that is left.
RouteStepPartialParallel(rd, invCard, csCard) ==
    CASE Branch(rd) = "none" -> <<ErrUnableToDetermine, "done">>
      [] Branch(rd) = "both" ->
            IF ~invCard /\ ~csCard THEN <<ErrParallelOffline, "done">>
            ELSE IF ~csCard THEN <<RoutingInventory, "call_inventory">>
            ELSE IF ~invCard THEN <<RoutingCustomerService, "call_customer_service">>
            ELSE <<RoutingBoth, "parallel">>
      [] Branch(rd) = "inventory" ->
            IF ~invCard THEN <<ErrInventoryOffline, "done">>
            ELSE <<RoutingInventory, "call_inventory">>
      [] Branch(rd) = "customer_service" ->
            IF ~csCard THEN <<ErrCustomerServiceOffline, "done">>
            ELSE <<RoutingCustomerService, "call_customer_service">>
      [] OTHER -> <<ErrCouldNotDetermine, "done">>

\* The event stream() yields right after the routing decision, and where it goes on.
RouteStep(rd, invCard, csCard) ==
    CASE Branch(rd) = "none" -> <<ErrUnableToDetermine, "done">>
      [] Branch(rd) = "both" ->
            IF ~invCard \/ ~csCard THEN <<ErrParallelOffline, "done">>
            ELSE <<RoutingBoth, "parallel">>
      [] Branch(rd) = "inventory" ->
            IF ~invCard THEN <<ErrInventoryOffline, "done">>
            ELSE <<RoutingInventory, "call_inventory">>
      [] Branch(rd) = "customer_service" ->
            IF ~csCard THEN <<ErrCustomerServiceOffline, "done">>
            ELSE <<RoutingCustomerService, "call_customer_service">>
      [] OTHER -> <<ErrCouldNotDetermine, "done">>

Route ==
    /\ pc = "route"
    /\ LET step == RouteStep(routing_decision, inventory_card, customer_service_card)
       IN Emit(step[1], step[2])
    /\ UNCHANGED <<frontendVars, runnerVars, extraVars, probed, down_seen,
                   cancel_rejected, raised_at, nqueries, agent_cards,
                   sessions, query, session_id, context_id, inventory_card,
                   customer_service_card, routing_decision, tasks, ready,
                   calls, sent, settle_order, responses, response>>

-----------------------------------------------------------------------------
(* The downstream calls *)

Call(url, q, ctx) == [url |-> url, query |-> q, context_id |-> ctx]

\* call_agents_parallel: both tasks are created, in this order, before the gather.
CreatedTasks == <<INVENTORY_AGENT_URL, CUSTOMER_SERVICE_AGENT_URL>>

\* Faulty variant: await-then-await, the second call starts when the first is over.
SchedulableSequential(step, a, tk, rdy) ==
    IF step = "start"
    THEN rdy # <<>> /\ Head(rdy) = a /\ \A b \in AgentUrls : tk[b].st \in {"scheduled", "done"}
    ELSE TRUE

\* The event loop, once stream() is suspended in the gather: the created tasks take
\* their first step in the order of their creation, each up to its first suspension;
\* only then are completions of network I/O delivered to the suspended calls.
Schedulable(step, a, tk, rdy) ==
    IF step = "start" THEN rdy # <<>> /\ Head(rdy) = a ELSE rdy = <<>>

CallAgentsParallel ==
    /\ pc = "parallel"
    /\ tasks' = [a \in AgentUrls |-> [NoTask EXCEPT !.st = "scheduled"]]
    /\ ready' = CreatedTasks
    /\ pc' = "gather"
    /\ UNCHANGED <<frontendVars, runnerVars, extraVars, probed, down_seen,
                   cancel_rejected, raised_at, nqueries, agent_cards,
                   sessions, query, session_id, context_id, inventory_card,
                   customer_service_card, routing_decision, calls, sent,
                   settle_order, responses, response, events, stream_outcome,
                   task_state, event_queue>>

\* A created task starts running _call_agent_with_a2a(url, query, context_id).
TaskStart(a) ==
    /\ pc = "gather"
    /\ tasks[a].st = "scheduled"
    /\ Schedulable("start", a, tasks, ready)
    /\ tasks' = [tasks EXCEPT ![a].st = "connecting"]
    /\ ready' = Tail(ready)
    /\ calls' = Append(calls, Call(a, query, context_id))
    /\ UNCHANGED <<frontendVars, runnerVars, extraVars, probed, down_seen,
                   cancel_rejected, raised_at, pc, nqueries, agent_cards,
                   sessions, query, session_id, context_id, inventory_card,
                   customer_service_card, routing_decision, sent,
                   settle_order, responses, response, events, stream_outcome,
                   task_state, event_queue>>

\* Faulty variant: both single-route branches call the inventory endpoint.
SingleTargetAlwaysInventory(at) == INVENTORY_AGENT_URL

\* The endpoint the single-route branch at this position calls.
SingleTarget(at) ==
    IF at = "call_inventory" THEN INVENTORY_AGENT_URL ELSE CUSTOMER_SERVICE_AGENT_URL

\* call_inventory_agent / call_customer_service_agent awaited directly by stream().
CallSingle ==
    /\ pc \in {"call_inventory", "call_customer_service"}
    /\ LET a == SingleTarget(pc) IN
        /\ tasks' = [tasks EXCEPT ![a].st = "connecting"]
        /\ calls' = Append(calls, Call(a, query, context_id))
    /\ pc' = "await_single"
    /\ UNCHANGED <<frontendVars, runnerVars, extraVars, probed, down_seen,
                   cancel_rejected, raised_at, nqueries, agent_cards,
                   sessions, query, session_id, context_id, inventory_card,
                   customer_service_card, routing_decision, ready, sent,
                   settle_order, responses, response, events, stream_outcome,
                   task_state, event_queue>>

\* The A2A client is there: the Message (contextId=context_id, text=query) is sent.
TaskSend(a) ==
    /\ tasks[a].st = "connecting"
    /\ Schedulable("io", a, tasks, ready)
    /\ tasks' = [tasks EXCEPT ![a].st = "sent"]
    /\ sent' = Append(sent, Call(a, query, context_id))
    /\ UNCHANGED <<frontendVars, runnerVars, extraVars, probed, down_seen,
                   cancel_rejected, raised_at, pc, nqueries, agent_cards,
                   sessions, query, session_id, context_id, inventory_card,
                   customer_service_card, routing_decision, ready, calls,
                   settle_order, responses, response, events, stream_outcome,
                   task_state, event_queue>>

\* The call ends: the endpoint answered, or something raised on the way.
TaskSettle(a, outcome) ==
    /\ tasks[a].st \in {"connecting", "sent"}
    /\ Schedulable("io", a, tasks, ready)
    /\ tasks[a].st = "connecting" => outcome.kind = "raise"
    /\ tasks' = [tasks EXCEPT ![a] =
                    [st |-> "done", outcome |-> outcome, res |-> CallAgentWithA2A(outcome)]]
    /\ settle_order' = Append(settle_order, a)
    /\ UNCHANGED <<frontendVars, runnerVars, extraVars, probed, down_seen,
                   cancel_rejected, raised_at, pc, nqueries, agent_cards,
                   sessions, query, session_id, context_id, inventory_card,
                   customer_service_card, routing_decision, ready, calls,
                   sent, responses, response, events, stream_outcome,
                   task_state, event_queue>>

\* Both tasks are done: gather returns and call_agents_parallel builds its dict.
GatherReturn ==
    /\ pc = "gather"
    /\ \A a \in AgentUrls : tasks[a].st = "done"
    /\ responses' = ParallelResponses(Gather(tasks, settle_order))
    /\ pc' = "agent_response"
    /\ UNCHANGED <<frontendVars, runnerVars, extraVars, probed, down_seen,
                   cancel_rejected, raised_at, nqueries, agent_cards,
                   sessions, query, session_id, context_id, inventory_card,
                   customer_service_card, routing_decision, tasks, ready,
                   calls, sent, settle_order, response, events,
                   stream_outcome, task_state, event_queue>>

\* The awaited single call is done: its value, or its exception, reaches stream().
SingleReturn ==
    /\ pc = "await_single"
    /\ \E a \in AgentUrls :
        /\ tasks[a].st = "done"
        /\ IF tasks[a].res.kind = "raise"
           THEN StreamRaises(tasks[a].res.val) /\ UNCHANGED response
           ELSE /\ response' = tasks[a].res.val
                /\ pc' = "agent_response"
                /\ UNCHANGED <<events, stream_outcome, task_state, event_queue>>
    /\ UNCHANGED <<frontendVars, runnerVars, extraVars, probed, down_seen,
                   cancel_rejected, raised_at, nqueries, agent_cards,
                   sessions, query, session_id, context_id, inventory_card,
                   customer_service_card, routing_decision, tasks, ready,
                   calls, sent, settle_order, responses>>

RespondingAgent(rd) ==
    CASE Branch(rd) = "both" -> <<"parallel">>
      [] Branch(rd) = "inventory" -> <<"inventory">>
      [] OTHER -> <<"customer", "service">>

YieldAgentResponse ==
    /\ pc = "agent_response"
    /\ Emit(AgentResponseEvent(RespondingAgent(routing_decision)), "result")
    /\ UNCHANGED <<frontendVars, runnerVars, extraVars, probed, down_seen,
                   cancel_rejected, raised_at, nqueries, agent_cards,
                   sessions, query, session_id, context_id, inventory_card,
                   customer_service_card, routing_decision, tasks, ready,
                   calls, sent, settle_order, responses, response>>

YieldResult ==
    /\ pc = "result"
    /\ Emit(ResultEvent(IF Branch(routing_decision) = "both"
                        THEN CombinedResponse(responses)
                        ELSE SingleResult(response)), "done")
    /\ UNCHANGED <<frontendVars, runnerVars, extraVars, probed, down_seen,
                   cancel_rejected, raised_at, nqueries, agent_cards,
                   sessions, query, session_id, context_id, inventory_card,
                   customer_service_card, routing_decision, tasks, ready,
                   calls, sent, settle_order, responses, response>>

\* Faulty variant: cancel() marks the task canceled.
CancelTaskStateCanceled(state) == "canceled"

\* cancel(): what it leaves of the task state it was called on.
CancelTaskState(state) == state

\* cancel(): raises ServerError(UnsupportedOperationError) whenever it is called.
Cancel ==
    /\ nqueries > 0
    /\ ~cancel_rejected
    /\ cancel_rejected' = TRUE
    /\ task_state' = CancelTaskState(task_state)
    /\ UNCHANGED <<frontendVars, runnerVars, extraVars, pc, nqueries, agent_cards,
                   sessions, query, session_id, context_id, probed, down_seen,
                   inventory_card, customer_service_card, routing_decision,
                   tasks, ready, calls, sent, settle_order, responses,
                   response, events, stream_outcome, event_queue, raised_at>>

Next ==
    \/ \E hasMessage \in BOOLEAN, q \in {r.query : r \in Requests} \cup {EmptyQuery} :
            ExecuteReject(hasMessage, q)
    \/ \E r \in Requests, hasTask \in BOOLEAN :
            ExecuteAccept(r.query, r.contextId, hasTask)
    \/ GetSession
    \/ \E reason \in Reasons : StreamInternalError(reason)
    \/ \E probeOk \in BOOLEAN : ProbeInventory(probeOk)
    \/ \E probeOk \in BOOLEAN : ProbeCustomerService(probeOk)
    \/ YieldStatus
    \/ \E rd \in RoutingDecisions : Classify(rd)
    \/ Route
    \/ CallAgentsParallel
    \/ \E a \in AgentUrls : TaskStart(a)
    \/ CallSingle
    \/ \E a \in AgentUrls : TaskSend(a)
    \/ \E a \in AgentUrls, outcome \in Outcomes : TaskSettle(a, outcome)
    \/ GatherReturn
    \/ SingleReturn
    \/ YieldAgentResponse
    \/ YieldResult
    \/ Cancel

Spec == Init /\ [][Next]_vars

-----------------------------------------------------------------------------
(* The routing predictions of the frontend *)

\* Words a message is typed from, each a sequence of characters; the last is a blank.
Vocabulary ==
    {
        <<"s", "t", "o", "c", "k">>,
        <<"P", "R", "I", "C", "E">>,
        <<"s", "h", "o", "w">>,
        <<"o", "r", "d", "e", "r">>,
        <<"h", "o", "u", "r", "s">>,
        <<"r", "e", "c", "o", "r", "d", "e", "r">>,
        <<"T", "V", "s">>,
        <<"a", "n", "d">>,
        <<" ">>
    }

Uppercase == <<"A", "B", "C", "D", "E", "F", "G", "H", "I", "J", "K", "L", "M", "N", "O", "P", "Q", "R", "S", "T", "U", "V", "W", "X", "Y", "Z">>

Lowercase == <<"a", "b", "c", "d", "e", "f", "g", "h", "i", "j", "k", "l", "m", "n", "o", "p", "q", "r", "s", "t", "u", "v", "w", "x", "y", "z">>

\* str.lower()
Lower(text) ==
    [i \in 1..Len(text) |->
        IF \E k \in 1..Len(Uppercase) : Uppercase[k] = text[i]
        THEN Lowercase[CHOOSE k \in 1..Len(Uppercase) : Uppercase[k] = text[i]]
        ELSE text[i]]

RECURSIVE LStrip(_)
LStrip(text) ==
    IF text # <<>> /\ Head(text) = " " THEN LStrip(Tail(text)) ELSE text

RECURSIVE RStrip(_)
RStrip(text) ==
    IF text # <<>> /\ text[Len(text)] = " "
    THEN RStrip(SubSeq(text, 1, Len(text) - 1))
    ELSE text

\* str.strip()
Strip(text) == RStrip(LStrip(text))

inventory_keywords ==
    <<
        <<"s", "t", "o", "c", "k">>,
        <<"i", "n", "v", "e", "n", "t", "o", "r", "y">>,
        <<"p", "r", "o", "d", "u", "c", "t">>,
        <<"a", "v", "a", "i", "l", "a", "b", "l", "e">>,
        <<"p", "r", "i", "c", "e">>,
        <<"c", "o", "s", "t">>,
        <<"b", "u", "y">>,
        <<"p", "u", "r", "c", "h", "a", "s", "e">>,
        <<"s", "e", "a", "r", "c", "h">>,
        <<"f", "i", "n", "d">>,
        <<"s", "h", "o", "w">>,
        <<"c", "a", "t", "e", "g", "o", "r", "y">>,
        <<"b", "r", "a", "n", "d">>
    >>

service_keywords ==
    <<
        <<"o", "r", "d", "e", "r">>,
        <<"r", "e", "t", "u", "r", "n">>,
        <<"r", "e", "f", "u", "n", "d">>,
        <<"c", "o", "m", "p", "l", "a", "i", "n", "t">>,
        <<"h", "e", "l", "p">>,
        <<"s", "u", "p", "p", "o", "r", "t">>,
        <<"h", "o", "u", "r", "s">>,
        <<"s", "t", "o", "r", "e">>,
        <<"l", "o", "c", "a", "t", "i", "o", "n">>,
        <<"p", "o", "l", "i", "c", "y">>,
        <<"s", "h", "i", "p", "p", "i", "n", "g">>,
        <<"d", "e", "l", "i", "v", "e", "r", "y">>
    >>

\* Faulty variant: a keyword counts only when it is the whole text.
KeywordScoreExactMatch(keywords, text) ==
    Cardinality({i \in 1..Len(keywords) : text = keywords[i]})

\* sum(1 for keyword in keywords if keyword in text)
KeywordScore(keywords, text) ==
    Cardinality({i \in 1..Len(keywords) : Contains(text, keywords[i])})

\* Faulty variant: the keywords are looked for in the message as typed.
PredictAgentRoutingCaseSensitive(msg) ==
    LET inventory_score == KeywordScore(inventory_keywords, msg)
        service_score == KeywordScore(service_keywords, msg)
    IN  IF inventory_score > service_score THEN "inventory"
        ELSE IF service_score > inventory_score THEN "customer service"
        ELSE "general"

\* StreamingHandler._predict_agent_routing(message)
PredictAgentRouting(msg) ==
    LET message_lower == Lower(msg)
        inventory_score == KeywordScore(inventory_keywords, message_lower)
        service_score == KeywordScore(service_keywords, message_lower)
    IN  IF inventory_score > service_score THEN "inventory"
        ELSE IF service_score > inventory_score THEN "customer service"
        ELSE "general"

\* The words on_send_message looks for.
app_inventory_words ==
    {
        <<"s", "t", "o", "c", "k">>,
        <<"p", "r", "o", "d", "u", "c", "t">>,
        <<"p", "r", "i", "c", "e">>,
        <<"a", "v", "a", "i", "l", "a", "b", "l", "e">>
    }

\* on_send_message: the predicted agent it logs for message_text.
AppPredictedAgent(message_text) ==
    IF \E word \in app_inventory_words : Contains(Lower(message_text), word)
    THEN "inventory"
    ELSE "customer_service"

\* The user types one more word: state.current_input = e.value.
OnInput(word) ==
    LET value == IF message = <<>> THEN word ELSE message \o <<" ">> \o word IN
    /\ Len(value) <= MaxMessageLen
    /\ message' = value
    /\ predicted_agent' = ""
    /\ app_predicted_agent' = ""
    /\ UNCHANGED <<hostVars, runnerVars, extraVars>>

\* stream_with_agent_details(message, ...) predicts the routing of its message.
StreamWithAgentDetails ==
    /\ predicted_agent = ""
    /\ predicted_agent' = PredictAgentRouting(message)
    /\ UNCHANGED <<message, app_predicted_agent, hostVars, runnerVars, extraVars>>

\* on_send_message: returns at once on a blank input, else logs its prediction.
OnSendMessage ==
    /\ app_predicted_agent = ""
    /\ app_predicted_agent' =
            IF Strip(message) = <<>> THEN "ignored" ELSE AppPredictedAgent(message)
    /\ UNCHANGED <<message, predicted_agent, hostVars, runnerVars, extraVars>>

NextFrontend ==
    \/ \E word \in Vocabulary : OnInput(word)
    \/ StreamWithAgentDetails
    \/ OnSendMessage

SpecFrontend == Init /\ [][NextFrontend]_vars

-----------------------------------------------------------------------------
(* The routing agent run in its session *)

\* The exchange a run leaves in its session: the user's query and the final response.
Exchange(q, rd) == [query |-> q, answer |-> rd]

\* What the model is given by runner.run_async(session_id, new_message): the events
\* the session holds so far, then the new message "Query: {query}".
RunnerInput(history, q) == [history |-> history, query |-> q]

Turns ==
    Cardinality({p \in SessionIds \X (1..MaxTurns) : p[2] <= Len(session_events[p[1]])})

\* stream() up to its routing decision: the session of session_id is fetched, or
\* created empty, and the routing agent runs in it on the query. What the model
\* answers is not decided by the code; it is taken to answer alike on like input.
ClassifyInSession(q, sid, rd) ==
    LET input == RunnerInput(session_events[sid], q) IN
    /\ Turns < MaxTurns
    /\ \A r \in llm_answers : r.input = input => r.answer = rd
    /\ session_events' = [session_events EXCEPT ![sid] = Append(@, Exchange(q, rd))]
    /\ llm_answers' = llm_answers \cup {[input |-> input, answer |-> rd]}
    /\ UNCHANGED <<hostVars, frontendVars, extraVars>>

NextRunner ==
    \E r \in Requests, sid \in SessionIds, rd \in RoutingDecisions :
        ClassifyInSession(r.query, sid, rd)

SpecRunner == Init /\ [][NextRunner]_vars

-----------------------------------------------------------------------------
(* HostAgent.get_agent_status *)

\* The (name, url) pairs the loop goes through, in its order.
StatusAgents ==
    <<[name |-> <<"Inventory", "Agent">>, url |-> INVENTORY_AGENT_URL],
      [name |-> <<"Customer", "Service", "Agent">>, url |-> CUSTOMER_SERVICE_AGENT_URL]>>

\* Faulty variant: every agent is reported online.
StatusLineAlwaysOnline(agent, card) ==
    <<"OK">> \o agent.name \o <<":", "Online", "-">> \o <<"<description of>", agent.url>>

\* The line appended for one agent: f"OK {name}: Online - {card.description}" or
\* f"X {name}: Offline", with the check mark and the cross written OK and X.
StatusLine(agent, card) ==
    IF card
    THEN <<"OK">> \o agent.name \o <<":", "Online", "-">> \o <<"<description of>", agent.url>>
    ELSE <<"X">> \o agent.name \o <<":", "Offline">>

\* get_agent_status() is called: lines = ["Agent Status:"].
GetAgentStatus ==
    /\ status_i = 0
    /\ status_calls < MaxStatusCalls
    /\ status_calls' = status_calls + 1
    /\ lines' = << <<"Agent", "Status:">> >>
    /\ status_i' = 1
    /\ UNCHANGED <<agent_status, agent_cards, down_seen, restOfStatus>>

\* One turn of the loop: the card of the agent is fetched and its line appended.
StatusProbe(probeOk) ==
    /\ status_i \in 1..Len(StatusAgents)
    /\ LET agent == StatusAgents[status_i] IN
        /\ agent_cards' = CardsAfter(agent_cards, agent.url, probeOk)
        /\ down_seen' = DownSeenAfter(down_seen, agent_cards, agent.url, probeOk)
        /\ lines' = Append(lines, StatusLine(agent, CardOf(agent_cards, agent.url, probeOk)))
    /\ status_i' = status_i + 1
    /\ UNCHANGED <<agent_status, status_calls, restOfStatus>>

\* return "\n".join(lines)
StatusReturn ==
    /\ status_i = Len(StatusAgents) + 1
    /\ agent_status' = Join(NL, lines)
    /\ status_i' = 0
    /\ UNCHANGED <<lines, status_calls, agent_cards, down_seen, restOfStatus>>

NextStatus ==
    \/ GetAgentStatus
    \/ \E probeOk \in BOOLEAN : StatusProbe(probeOk)
    \/ StatusReturn

SpecStatus == Init /\ [][NextStatus]_vars

-----------------------------------------------------------------------------
(* The inventory agent: InventoryAgentExecutor.execute and InventoryAgent.stream *)

\* A dict with its number of entries, or no dict at all (None).
Dict(entries) == [dict |-> TRUE, entries |-> entries]

NoData == [dict |-> FALSE, entries |-> 0]

\* A part of the content of a runner event: a function call, a text or a
\* function response.
Part(kind, name, text, data) ==
    [kind |-> kind, name |-> name, text |-> text, response |-> data]

\* Names of tools of the inventory agent, the words between the underscores.
ToolNames == {<<"check", "_", "product", "_", "availability">>,
              <<"get", "_", "all", "_", "products">>}

\* What the content of a runner event can hold.
PartLists ==
    {<<>>,
     <<Part("text", <<>>, <<>>, NoData)>>,
     <<Part("text", <<>>, T1, NoData)>>,
     <<Part("text", <<>>, T1, NoData), Part("text", <<>>, T2, NoData)>>,
     <<Part("function_response", <<>>, <<>>, Dict(2))>>,
     <<Part("function_response", <<>>, <<>>, Dict(0))>>,
     <<Part("text", <<>>, T1, NoData), Part("function_response", <<>>, <<>>, Dict(2))>>}
    \cup {<<Part("function_call", n, <<>>, NoData)>> : n \in ToolNames}
    \cup {<<Part("function_call", n, <<>>, NoData), Part("function_call", m, <<>>, NoData)>> :
            n, m \in ToolNames}

\* The events of runner.run_async: content is None or has parts; final or not.
RunnerEvents ==
    [has_content : {TRUE}, parts : PartLists, final : BOOLEAN]
    \cup [has_content : {FALSE}, parts : {<<>>}, final : BOOLEAN]

\* The events stream() yields.
InvEvent(type, tool_name, text, data) ==
    [type |-> type, tool_name |-> tool_name, message |-> text, data |-> data]

\* name.replace('_', ' ')
ReplaceUnderscores(name) ==
    [i \in 1..Len(name) |-> IF name[i] = "_" THEN " " ELSE name[i]]

\* The tool_call events yielded for one runner event, one per function_call part.
ToolCallsOf(ev) ==
    IF ev.has_content /\ ev.parts # <<>>
    THEN LET calls_ == SelectSeq(ev.parts, LAMBDA part : part.kind = "function_call")
         IN [i \in 1..Len(calls_) |->
                InvEvent("tool_call", calls_[i].name,
                         <<"Searching", "Vertex", "AI:">>
                             \o ReplaceUnderscores(calls_[i].name) \o <<"...">>,
                         NoData)]
    ELSE <<>>

\* text_parts of the final response: the texts of the parts that have one.
TextParts(parts) ==
    LET withText == SelectSeq(parts, LAMBDA part : part.text # <<>>)
    IN [i \in 1..Len(withText) |-> withText[i].text]

\* response_data: the response of the last function_response part without text.
ResponseData(parts) ==
    LET at == {i \in 1..Len(parts) :
                  parts[i].text = <<>> /\ parts[i].kind = "function_response"}
    IN IF at = {} THEN NoData
       ELSE parts[CHOOSE i \in at : \A j \in at : j <= i].response

\* Faulty variant: a run without a final response yields nothing at its end.
FinalEventsNoneWhenEmpty(fr) ==
    IF fr # <<>> /\ fr[1].has_content
    THEN <<InvEvent("result", <<>>, Join(NL, TextParts(fr[1].parts)), NoData)>>
    ELSE <<>>

\* What stream() yields after the loop, from final_response.
FinalEvents(fr) ==
    IF fr # <<>> /\ fr[1].has_content
    THEN LET response_text == Join(NL, TextParts(fr[1].parts))
             response_data == ResponseData(fr[1].parts)
         IN IF response_data.dict /\ response_data.entries > 0
            THEN <<InvEvent("result", <<>>, <<>>, response_data)>>
            ELSE <<InvEvent("result", <<>>,
                            IF response_text # <<>> THEN response_text
                            ELSE <<"No", "response", "generated">>,
                            NoData)>>
    ELSE <<InvEvent("error", <<>>, <<"No", "response", "from", "inventory", "agent">>,
                    NoData)>>

\* What execute() enqueues for an event of stream().
InvExecutorUpdates(ev) ==
    CASE ev.type = "status" -> <<Update("status", "working", ev.message)>>
      [] ev.type = "tool_call" ->
            <<Update("status", "working",
                     <<"Calling">> \o ev.tool_name \o <<":">> \o ev.message)>>
      [] ev.type = "result" ->
            <<[kind |-> "artifact", state |-> "working",
               text |-> IF ev.data.dict THEN <<"<data>">> ELSE ev.message],
              Update("status", "completed", <<>>)>>
      [] ev.type = "error" -> <<Update("status", "failed", <<"Error:">> \o ev.message)>>
      [] OTHER -> <<>>

RECURSIVE InvHandle(_, _)
\* The loop of execute() over the events evs: the queue and the task state after
\* them, and whether the loop broke.
InvHandle(evs, st) ==
    IF evs = <<>> \/ st.broke THEN st
    ELSE LET ev == Head(evs) IN
         InvHandle(Tail(evs),
                   [queue |-> st.queue \o InvExecutorUpdates(ev),
                    state |-> CASE ev.type = "result" -> "completed"
                                [] ev.type = "error" -> "failed"
                                [] OTHER -> "working",
                    seen |-> Append(st.seen, ev),
                    broke |-> ev.type \in {"result", "error"}])

InvFreshLocals ==
    /\ inv_events' = <<>>
    /\ inv_consumed' = 0
    /\ tool_called' = FALSE
    /\ final_response' = <<>>

\* execute(): the request has no message or no user input.
InvExecuteReject(hasMessage, q) ==
    /\ inv_pc \in {"idle", "done", "rejected"}
    /\ inv_n < MaxQueries
    /\ ~hasMessage \/ q = EmptyQuery
    /\ inv_pc' = "rejected"
    /\ inv_n' = inv_n + 1
    /\ inv_query' = EmptyQuery
    /\ inv_task_state' = "none"
    /\ inv_event_queue' = <<>>
    /\ InvFreshLocals
    /\ UNCHANGED restOfInventory

\* execute(): a valid request; the task is created if needed and set to working.
InvExecuteAccept(q, hasTask) ==
    /\ inv_pc \in {"idle", "done", "rejected"}
    /\ inv_n < MaxQueries
    /\ q # EmptyQuery
    /\ inv_pc' = "session"
    /\ inv_n' = inv_n + 1
    /\ inv_query' = q
    /\ inv_task_state' = "working"
    /\ inv_event_queue' =
          (IF hasTask THEN <<>> ELSE <<Update("task", "submitted", <<>>)>>)
          \o <<Update("status", "working", <<>>)>>
    /\ InvFreshLocals
    /\ UNCHANGED restOfInventory

\* stream() yields evs one after the other to the loop of execute().
InvEmit(evs, nextpc) ==
    LET st == InvHandle(evs, [queue |-> inv_event_queue, state |-> inv_task_state,
                              seen |-> inv_events, broke |-> FALSE])
    IN /\ inv_events' = st.seen
       /\ inv_event_queue' = st.queue
       /\ inv_task_state' = st.state
       /\ inv_pc' = IF st.broke THEN "done" ELSE nextpc

\* get_session / create_session.
InvGetSession ==
    /\ inv_pc = "session"
    /\ inv_pc' = "status"
    /\ UNCHANGED <<inv_n, inv_query, inv_events, inv_task_state, inv_event_queue,
                   inv_consumed, tool_called, final_response, restOfInventory>>

\* The session service or the runner raises: the except branch yields an error.
InvStreamRaises(reason) ==
    /\ inv_pc \in {"session", "run"}
    /\ InvEmit(<<InvEvent("error", <<>>,
                         <<"Error", "processing", "inventory", "request:", reason>>, NoData)>>,
               "done")
    /\ UNCHANGED <<inv_n, inv_query, inv_consumed, tool_called, final_response,
                   restOfInventory>>

InvYieldStatus ==
    /\ inv_pc = "status"
    /\ InvEmit(<<InvEvent("status", <<>>, <<"Searching", "inventory", "database...">>, NoData)>>,
               "run")
    /\ UNCHANGED <<inv_n, inv_query, inv_consumed, tool_called, final_response,
                   restOfInventory>>

\* One event of runner.run_async goes through the body of the loop.
InvRunnerEvent(ev) ==
    /\ inv_pc = "run"
    /\ inv_consumed < MaxRunnerEvents
    /\ inv_consumed' = inv_consumed + 1
    /\ tool_called' = (tool_called \/ ToolCallsOf(ev) # <<>>)
    /\ final_response' = IF ev.final THEN <<ev>> ELSE final_response
    /\ InvEmit(ToolCallsOf(ev), "run")
    /\ UNCHANGED <<inv_n, inv_query, restOfInventory>>

\* The runner has no more events: the final response is processed.
InvYieldFinal ==
    /\ inv_pc = "run"
    /\ InvEmit(FinalEvents(final_response), "done")
    /\ UNCHANGED <<inv_n, inv_query, inv_consumed, tool_called, final_response,
                   restOfInventory>>

NextInventory ==
    \/ \E hasMessage \in BOOLEAN, q \in {"Do you have smart TVs in stock?", EmptyQuery} :
            InvExecuteReject(hasMessage, q)
    \/ \E hasTask \in BOOLEAN : InvExecuteAccept("Do you have smart TVs in stock?", hasTask)
    \/ InvGetSession
    \/ \E reason \in Reasons : InvStreamRaises(reason)
    \/ InvYieldStatus
    \/ \E ev \in RunnerEvents : InvRunnerEvent(ev)
    \/ InvYieldFinal

SpecInventory == Init /\ [][NextInventory]_vars

-----------------------------------------------------------------------------
(* The tool functions of the inventory agent over the Vertex AI Search store *)

\* The documents search() returns: the product's fields under "metadata" or
\* flattened, and a stock_quantity that is a number or null.
Documents ==
    [id : {"PROD-001", "PROD-002"}, has_metadata : BOOLEAN, stock_quantity : {0, 15},
     stock_null : BOOLEAN]

\* What search_store.search does: it raises, or it returns hits.
BackendAnswers ==
    [raises : {TRUE}, reason : Reasons, hits : {<<>>}]
    \cup [raises : {FALSE}, reason : {""},
          hits : {<<>>} \cup {<<doc>> : doc \in Documents}
                 \cup {<<d1, d2>> : d1 \in {doc \in Documents : doc.id = "PROD-001"},
                                    d2 \in {doc \in Documents : doc.id = "PROD-002"}}]

\* How the body of a tool function ends.
ToolReturned(dict) == [raised |-> FALSE, reason |-> "", dict |-> dict]

ToolRaised(reason) == [raised |-> TRUE, reason |-> reason, dict |-> [status |-> "raised"]]

\* Faulty variant: the exception of the body goes on to the caller.
CaughtReraised(outcome, dict) == outcome

\* try: <body> except Exception: return dict
Caught(outcome, dict) == IF outcome.raised THEN ToolReturned(dict) ELSE outcome

\* VertexSearchStore.get_by_id: the first hit with this id, <<>> is None.
GetById(product_id, hits) ==
    LET found == SelectSeq(hits, LAMBDA doc : doc.id = product_id)
    IN IF found = <<>> THEN <<>> ELSE <<found[1]>>

\* The body of check_product_availability.
CheckProductAvailabilityBody(product_id, backend) ==
    IF backend.raises THEN ToolRaised(backend.reason)
    ELSE LET result == GetById(product_id, backend.hits) IN
         IF result # <<>>
         THEN IF result[1].stock_null
              THEN ToolRaised("'>' not supported between instances of 'NoneType' and 'int'")
              ELSE ToolReturned([status |-> "success",
                                 product_id |-> result[1].id,
                                 available |-> result[1].stock_quantity > 0,
                                 stock_quantity |-> result[1].stock_quantity])
         ELSE ToolReturned([status |-> "error",
                            error_message |-> <<"Product", product_id, "not", "found">>])

check_product_availability(product_id, backend) ==
    LET body == CheckProductAvailabilityBody(product_id, backend)
    IN Caught(body, [status |-> "error",
                     error_message |-> <<"Failed", "to", "check", "product:",
                                         body.reason>>])

\* The body of search_products_by_query.
SearchProductsByQueryBody(term, backend) ==
    IF backend.raises THEN ToolRaised(backend.reason)
    ELSE LET products == [i \in 1..Len(backend.hits) |->
                              [id |-> backend.hits[i].id,
                               stock_quantity |-> backend.hits[i].stock_quantity,
                               stock_null |-> backend.hits[i].stock_null]]
         IN ToolReturned([status |-> "success",
                          total_count |-> Len(products),
                          products |-> products])

search_products_by_query(term, backend) ==
    LET body == SearchProductsByQueryBody(term, backend)
    IN Caught(body, [status |-> "error",
                     error_message |-> <<"Search", "failed:", body.reason>>,
                     products |-> <<>>])

\* The agent calls check_product_availability.
CallCheckProductAvailability(product_id, backend) ==
    /\ tool_n < MaxToolCalls
    /\ tool_n' = tool_n + 1
    /\ tool_call' = <<[tool |-> "check_product_availability", arg |-> product_id,
                       backend |-> backend]>>
    /\ tool_result' = <<check_product_availability(product_id, backend)>>
    /\ UNCHANGED restOfTools

\* The agent calls search_products_by_query.
CallSearchProductsByQuery(term, backend) ==
    /\ tool_n < MaxToolCalls
    /\ tool_n' = tool_n + 1
    /\ tool_call' = <<[tool |-> "search_products_by_query", arg |-> term,
                       backend |-> backend]>>
    /\ tool_result' = <<search_products_by_query(term, backend)>>
    /\ UNCHANGED restOfTools

NextTools ==
    \/ \E product_id \in {"PROD-001", "PROD-999"}, backend \in BackendAnswers :
            CallCheckProductAvailability(product_id, backend)
    \/ \E term \in {"smart tv"}, backend \in BackendAnswers :
            CallSearchProductsByQuery(term, backend)

SpecTools == Init /\ [][NextTools]_vars

-----------------------------------------------------------------------------
(* The customer service agent: CustomerServiceAgentExecutor.execute and
   CustomerServiceAgent.stream over the agent/tools graph *)

CsToolNames == {<<"check", "_", "order", "_", "status">>,
                <<"get", "_", "store", "_", "hours">>}

\* The AIMessage the agent node adds: tool calls, content, or neither.
AIMessages ==
    [tool_calls : {<<>>} \cup {<<n>> : n \in CsToolNames}
                     \cup {<<n, m>> : n, m \in CsToolNames},
     content : {<<>>,
                <<"we", "are", "open", "9-9">>,
                <<"that", "item", "is", "in", "stock">>}]

CsEvent(type, tool_name, text) == [type |-> type, tool_name |-> tool_name, message |-> text]

\* any(keyword in content_lower for keyword in inventory_keywords)
MentionsInventory(content) ==
    \E keyword \in {"stock", "inventory", "available", "product", "item"} :
        In(keyword, content)

\* What the body of the loop of stream() yields for the AIMessage that is last.
EventsOfAIMessage(last_message, calledTools) ==
    IF last_message.tool_calls # <<>>
    THEN [i \in 1..Len(last_message.tool_calls) |->
             CsEvent("tool_call", last_message.tool_calls[i],
                     <<"Looking", "up">> \o ReplaceUnderscores(last_message.tool_calls[i])
                         \o <<"...">>)]
    ELSE IF last_message.content # <<>>
    THEN IF MentionsInventory(last_message.content) /\ ~calledTools
         THEN <<CsEvent("inventory_query", <<>>,
                        <<"This", "appears", "to", "be", "an", "inventory", "question.">>),
                CsEvent("result", <<>>,
                        <<"I'll", "need", "to", "check", "our", "inventory", "system">>)>>
         ELSE <<CsEvent("result", <<>>, last_message.content)>>
    ELSE <<>>

\* What execute() enqueues for an event of stream().
CsExecutorUpdates(ev) ==
    CASE ev.type = "status" -> <<Update("status", "working", ev.message)>>
      [] ev.type = "tool_call" ->
            <<Update("status", "working",
                     <<"Calling">> \o ev.tool_name \o <<":">> \o ev.message)>>
      [] ev.type = "input_required" -> <<Update("status", "input-required", ev.message)>>
      [] ev.type = "inventory_query" ->
            <<Update("status", "working", <<"Checking", "inventory", "system...">>)>>
      [] ev.type = "result" ->
            <<Update("artifact", "working", ev.message), Update("status", "completed", <<>>)>>
      [] ev.type = "error" -> <<Update("status", "failed", <<"Error:">> \o ev.message)>>
      [] OTHER -> <<>>

RECURSIVE CsHandle(_, _)
\* The loop of execute() over the events evs: the queue and the task state after
\* them, and whether the loop broke.
CsHandle(evs, st) ==
    IF evs = <<>> \/ st.broke THEN st
    ELSE LET ev == Head(evs) IN
         CsHandle(Tail(evs),
                  [queue |-> st.queue \o CsExecutorUpdates(ev),
                   state |-> CASE ev.type = "result" -> "completed"
                               [] ev.type = "error" -> "failed"
                               [] ev.type = "input_required" -> "input-required"
                               [] OTHER -> "working",
                   seen |-> Append(st.seen, ev),
                   broke |-> ev.type \in {"result", "error", "input_required"}])

CsFreshLocals ==
    /\ cs_events' = <<>>
    /\ cs_steps' = 0
    /\ graph_next' = "input"
    /\ has_called_tools' = FALSE

\* Faulty variant: the task is created and enqueued before the request is checked.
CsExecuteRejectAfterTask(hasMessage, q) ==
    /\ cs_pc \in {"idle", "done", "rejected"}
    /\ cs_n < MaxQueries
    /\ ~hasMessage \/ q = EmptyQuery
    /\ cs_pc' = "rejected"
    /\ cs_n' = cs_n + 1
    /\ cs_query' = EmptyQuery
    /\ cs_task_state' = "submitted"
    /\ cs_event_queue' = <<Update("task", "submitted", <<>>)>>
    /\ CsFreshLocals
    /\ UNCHANGED restOfCustomerService

\* execute(): the request has no message or no user input.
CsExecuteReject(hasMessage, q) ==
    /\ cs_pc \in {"idle", "done", "rejected"}
    /\ cs_n < MaxQueries
    /\ ~hasMessage \/ q = EmptyQuery
    /\ cs_pc' = "rejected"
    /\ cs_n' = cs_n + 1
    /\ cs_query' = EmptyQuery
    /\ cs_task_state' = "none"
    /\ cs_event_queue' = <<>>
    /\ CsFreshLocals
    /\ UNCHANGED restOfCustomerService

\* execute(): a valid request; the task is created if needed and set to working.
CsExecuteAccept(q, hasTask) ==
    /\ cs_pc \in {"idle", "done", "rejected"}
    /\ cs_n < MaxQueries
    /\ q # EmptyQuery
    /\ cs_pc' = "status"
    /\ cs_n' = cs_n + 1
    /\ cs_query' = q
    /\ cs_task_state' = "working"
    /\ cs_event_queue' =
          (IF hasTask THEN <<>> ELSE <<Update("task", "submitted", <<>>)>>)
          \o <<Update("status", "working", <<>>)>>
    /\ CsFreshLocals
    /\ UNCHANGED restOfCustomerService

\* stream() yields evs one after the other to the loop of execute(); after a
\* result or an error the loop breaks and the stream is closed.
CsEmit(evs, nextpc) ==
    LET st == CsHandle(evs, [queue |-> cs_event_queue, state |-> cs_task_state,
                             seen |-> cs_events, broke |-> FALSE])
    IN /\ cs_events' = st.seen
       /\ cs_event_queue' = st.queue
       /\ cs_task_state' = st.state
       /\ cs_pc' = IF st.broke THEN "done" ELSE nextpc

CsYieldStatus ==
    /\ cs_pc = "status"
    /\ CsEmit(<<CsEvent("status", <<>>, <<"Processing", "your", "request...">>)>>, "graph")
    /\ UNCHANGED <<cs_n, cs_query, cs_steps, graph_next, has_called_tools,
                   restOfCustomerService>>

\* The first value of the graph is its input: the last message is the user's,
\* and the body of the loop yields nothing for it.
CsGraphInput ==
    /\ cs_pc = "graph"
    /\ graph_next = "input"
    /\ graph_next' = "agent"
    /\ UNCHANGED <<cs_pc, cs_n, cs_query, cs_events, cs_task_state, cs_event_queue,
                   cs_steps, has_called_tools, restOfCustomerService>>

\* The agent node ran: the last message is the model's AIMessage.
CsAgentStep(last_message) ==
    /\ cs_pc = "graph"
    /\ graph_next = "agent"
    /\ cs_steps < MaxGraphSteps
    /\ cs_steps' = cs_steps + 1
    /\ graph_next' = IF last_message.tool_calls # <<>> THEN "tools" ELSE "end"
    /\ has_called_tools' = (has_called_tools \/ last_message.tool_calls # <<>>)
    /\ CsEmit(EventsOfAIMessage(last_message, has_called_tools), "graph")
    /\ UNCHANGED <<cs_n, cs_query, restOfCustomerService>>

\* The tools node ran: the last message is a ToolMessage.
CsToolsStep ==
    /\ cs_pc = "graph"
    /\ graph_next = "tools"
    /\ cs_steps < MaxGraphSteps
    /\ cs_steps' = cs_steps + 1
    /\ graph_next' = "agent"
    /\ CsEmit(<<CsEvent("status", <<>>, <<"Processing", "information...">>)>>, "graph")
    /\ UNCHANGED <<cs_n, cs_query, has_called_tools, restOfCustomerService>>

\* The graph raises, at its recursion limit at the latest: the except branch of
\* stream() yields an error.
CsStreamRaises(reason) ==
    /\ cs_pc = "graph"
    /\ graph_next \in {"agent", "tools"}
    /\ CsEmit(<<CsEvent("error", <<>>, <<"Error", "processing", "request:", reason>>)>>, "done")
    /\ UNCHANGED <<cs_n, cs_query, cs_steps, graph_next, has_called_tools,
                   restOfCustomerService>>

\* The graph is at END: astream is exhausted, stream() returns and the loop of
\* execute() ends.
CsGraphEnd ==
    /\ cs_pc = "graph"
    /\ graph_next = "end"
    /\ cs_pc' = "done"
    /\ UNCHANGED <<cs_n, cs_query, cs_events, cs_task_state, cs_event_queue,
                   cs_steps, graph_next, has_called_tools, restOfCustomerService>>

\* The steps of a run of execute() that was accepted.
CsRun ==
    \/ CsYieldStatus
    \/ CsGraphInput
    \/ \E last_message \in AIMessages : CsAgentStep(last_message)
    \/ CsToolsStep
    \/ \E reason \in Reasons \cup {"GraphRecursionError"} : CsStreamRaises(reason)
    \/ CsGraphEnd

NextCustomerService ==
    \/ \E hasMessage \in BOOLEAN, q \in {"What are your store hours?", EmptyQuery} :
            CsExecuteReject(hasMessage, q)
    \/ \E hasTask \in BOOLEAN : CsExecuteAccept("What are your store hours?", hasTask)
    \/ CsRun

\* The event loop runs an accepted execute() on until it returns.
SpecCustomerServiceFair == Init /\ [][NextCustomerService]_vars /\ WF_vars(CsRun)

-----------------------------------------------------------------------------
(* The three executors. They are separate servers that share no state; a
   behaviour is the life of one of them, whichever it is. *)

NextExecutors ==
    \/ inv_n = 0 /\ cs_n = 0 /\ Next
    \/ nqueries = 0 /\ cs_n = 0 /\ NextInventory
    \/ nqueries = 0 /\ inv_n = 0 /\ NextCustomerService

SpecExecutors == Init /\ [][NextExecutors]_vars

-----------------------------------------------------------------------------
(* The CLI client: A2ACLIClient.run, handle_command and send_message over
   A2AManager *)

\* The keys of A2AManager.agent_urls.
agent_urls == {"host", "inventory", "customer_service"}

\* The lines typed at the prompt, stripped and split at the blanks.
CliInputs ==
    {<<>>, <<"/help">>, <<"/quit">>, <<"/clear">>, <<"/status">>, <<"/bogus">>,
     <<"/switch">>, <<"/quit", "now">>, <<"hello">>, <<"switch", "billing">>}
    \cup {<<"/switch", name>> : name \in agent_urls \cup {"billing", "Host"}}
    \cup {<<"/switch", "host", "inventory">>}

\* user_input.startswith("/")
IsCommand(line) ==
    /\ line # <<>>
    /\ line[1] \in {"/help", "/quit", "/clear", "/status", "/switch", "/bogus"}

\* command.startswith("/switch "): the word /switch and something after it.
IsSwitch(line) == Len(line) >= 2 /\ line[1] = "/switch"

\* agent_name in self.manager.agent_urls, agent_name being what follows /switch
\* (command.split(" ", 1)[1].strip()): one name, or more words.
Known(agent_name) == Len(agent_name) = 1 /\ agent_name[1] \in agent_urls

\* Faulty variant: /switch takes whatever name it is given.
CurrentAgentAfterAnySwitch(current, line) ==
    IF IsSwitch(line) /\ Len(Tail(line)) = 1 THEN Tail(line)[1] ELSE current

\* self.current_agent after handle_command(line).
CurrentAgentAfter(current, line) ==
    IF IsSwitch(line) /\ Known(Tail(line)) THEN Tail(line)[1] ELSE current

\* The value handle_command returns: False for /quit alone, True otherwise.
HandleCommandReturns(line) == line # <<"/quit">>

\* A2AManager.send_to_agent: ValueError for a name that is no key, else the
\* outcome of the request.
SendToAgent(name, outcome) ==
    [agent |-> name,
     outcome |-> IF name \notin agent_urls THEN "ValueError" ELSE outcome]

CliTurn(line) ==
    /\ cli_running
    /\ cli_n < MaxInputs
    /\ cli_n' = cli_n + 1
    /\ cli_input' = line

\* An empty line: the loop goes on.
CliBlank ==
    /\ CliTurn(<<>>)
    /\ UNCHANGED <<current_agent, cli_running, cli_ended_by, cli_sends, restOfCli>>

\* A line that starts with "/": handle_command.
CliCommand(line) ==
    /\ IsCommand(line)
    /\ CliTurn(line)
    /\ current_agent' = CurrentAgentAfter(current_agent, line)
    /\ cli_running' = HandleCommandReturns(line)
    /\ cli_ended_by' = IF HandleCommandReturns(line) THEN "" ELSE "/quit"
    /\ UNCHANGED <<cli_sends, restOfCli>>

\* Any other line: send_message to the current agent; every exception is caught.
CliMessage(line, outcome) ==
    /\ line # <<>> /\ ~IsCommand(line)
    /\ CliTurn(line)
    /\ cli_sends' = Append(cli_sends, SendToAgent(current_agent, outcome))
    /\ UNCHANGED <<current_agent, cli_running, cli_ended_by, restOfCli>>

\* Ctrl-C or end of input at the prompt: KeyboardInterrupt, EOFError.
CliInterrupt(exc) ==
    /\ cli_running
    /\ cli_running' = FALSE
    /\ cli_ended_by' = exc
    /\ UNCHANGED <<current_agent, cli_input, cli_sends, cli_n, restOfCli>>

NextCli ==
    \/ CliBlank
    \/ \E line \in CliInputs : CliCommand(line)
    \/ \E line \in CliInputs, outcome \in {"response", "none", "raise"} :
            CliMessage(line, outcome)
    \/ \E exc \in {"KeyboardInterrupt", "EOFError"} : CliInterrupt(exc)

SpecCli == Init /\ [][NextCli]_vars

-----------------------------------------------------------------------------
(* Vocabulary of the claims *)

TakenBranch == Branch(routing_decision)

LastEvent == events[Len(events)]

Ended == pc = "done" /\ events # <<>>

EndedWithResult == Ended /\ LastEvent.type = "result"

OtherAgent(a) == CHOOSE b \in AgentUrls : b # a

RoutedTo(a) ==
    \/ a = INVENTORY_AGENT_URL /\ TakenBranch = "inventory"
    \/ a = CUSTOMER_SERVICE_AGENT_URL /\ TakenBranch = "customer_service"

SectionHeading(a) ==
    IF a = INVENTORY_AGENT_URL THEN InventoryHeading ELSE CustomerServiceHeading

\* The downstream call to a failed with an exception.
Failed(a) == tasks[a].st = "done" /\ tasks[a].outcome.kind = "raise"

\* The downstream call to a answered with exactly one text.
SucceededWithText(a) ==
    /\ tasks[a].st = "done"
    /\ tasks[a].outcome.kind \in {"message", "task_status", "task_artifacts"}
    /\ Len(tasks[a].outcome.texts) = 1

TextOf(a) == tasks[a].outcome.texts[1]

\* The text names the agent.
Names(text, a) ==
    IF a = INVENTORY_AGENT_URL
    THEN In("inventory", text) \/ In("Inventory", text)
    ELSE Contains(text, <<"customer", "service">>) \/ Contains(text, <<"Customer", "service">>)

Artifacts == SelectSeq(event_queue, LAMBDA u : u.kind = "artifact")

CallsTo(a) == Len(SelectSeq(calls, LAMBDA c : c.url = a))

-----------------------------------------------------------------------------
(* C1 .. C10 *)

\* C1: partial failure isolation. When a both-routed query has one downstream call
\* fail with an exception and the other succeed with text T, the handling ends with
\* a result (the task completed, no exception out of stream) whose content holds T
\* and an error marker in the failed agent's section, and none in the other's.
C1_PartialFailureIsolation ==
    \A a \in AgentUrls :
        (pc = "done" /\ TakenBranch = "both" /\ Failed(a) /\ SucceededWithText(OtherAgent(a)))
        => /\ EndedWithResult
           /\ stream_outcome = "returned"
           /\ task_state = "completed"
           /\ Contains(LastEvent.text, SectionHeading(OtherAgent(a)) \o TextOf(OtherAgent(a)))
           /\ Contains(LastEvent.text, SectionHeading(a) \o <<"Error">>)
           /\ ~Contains(LastEvent.text, SectionHeading(OtherAgent(a)) \o <<"Error">>)

C1_Witness ==
    /\ pc = "done" /\ TakenBranch = "both"
    /\ Failed(INVENTORY_AGENT_URL)
    /\ SucceededWithText(CUSTOMER_SERVICE_AGENT_URL)
    /\ TextOf(CUSTOMER_SERVICE_AGENT_URL) = T2

\* C2: order stability. The combined result of a both-routed query is the header,
\* the inventory heading with what the inventory call returned, then the customer
\* service heading with what the customer service call returned, whichever call
\* finished first.
C2_OrderStability ==
    (pc = "done" /\ TakenBranch = "both" /\ EndedWithResult)
    => /\ LastEvent.text =
              CombinedHeader
              \o InventoryHeading \o tasks[INVENTORY_AGENT_URL].res.val
              \o CustomerServiceHeading \o tasks[CUSTOMER_SERVICE_AGENT_URL].res.val
       /\ \A a \in AgentUrls :
              SucceededWithText(a)
              => Contains(LastEvent.text, SectionHeading(a) \o TextOf(a))

C2_Witness ==
    /\ pc = "done" /\ TakenBranch = "both" /\ EndedWithResult
    /\ settle_order = <<CUSTOMER_SERVICE_AGENT_URL, INVENTORY_AGENT_URL>>
    /\ tasks[INVENTORY_AGENT_URL].res.val # tasks[CUSTOMER_SERVICE_AGENT_URL].res.val

C4_ConcurrentDispatch ==
    /\ pc = "gather" => \A a \in AgentUrls : tasks[a].st # "none"
    /\ \A a \in AgentUrls :
            (TakenBranch = "both" /\ tasks[a].st \in {"sent", "done"})
            => tasks[OtherAgent(a)].st \in {"connecting", "sent", "done"}

C4_Witness ==
    /\ pc = "gather"
    /\ \A a \in AgentUrls : tasks[a].st = "sent"

\* C5: context round-trip. Every downstream call, and every message sent, carries
\* the session id stream() was given, with the query it was given.
C5_ContextRoundTrip ==
    /\ \A i \in 1..Len(calls) : calls[i].context_id = session_id /\ calls[i].query = query
    /\ \A i \in 1..Len(sent) : sent[i].context_id = session_id /\ sent[i].query = query

C5_Witness ==
    /\ Len(sent) = 2
    /\ session_id = "sess-2"
    /\ \A i \in 1..Len(sent) : sent[i].context_id = "sess-2"

\* C6: one call per endpoint. A single-route query makes at most one call, to the
\* selected endpoint, and exactly one once the call has been dispatched, also when
\* it failed; a both-routed query calls each endpoint at most once.
C6_ExactlyOneCall ==
    /\ \A a \in AgentUrls :
            RoutedTo(a)
            => /\ CallsTo(OtherAgent(a)) = 0
               /\ CallsTo(a) <= 1
               /\ (pc \in {"await_single", "agent_response", "result"} \/ EndedWithResult)
                  => CallsTo(a) = 1
    /\ \A a \in AgentUrls : CallsTo(a) <= 1
    /\ Len(sent) <= Len(calls)

C6_Witness ==
    /\ EndedWithResult
    /\ RoutedTo(CUSTOMER_SERVICE_AGENT_URL)
    /\ Failed(CUSTOMER_SERVICE_AGENT_URL)
    /\ Len(calls) = 1

\* C7: verbatim single-route result. When the one downstream call of a single-route
\* query answers with text T, the result event's content and the task's one
\* artifact are exactly T.
C7_VerbatimResult ==
    \A a \in AgentUrls :
        (pc = "done" /\ RoutedTo(a) /\ SucceededWithText(a))
        => /\ EndedWithResult
           /\ LastEvent.text = TextOf(a)
           /\ Len(Artifacts) = 1
           /\ Artifacts[1].text = TextOf(a)
           /\ task_state = "completed"

C7_Witness ==
    /\ pc = "done"
    /\ RoutedTo(INVENTORY_AGENT_URL)
    /\ SucceededWithText(INVENTORY_AGENT_URL)
    /\ TextOf(INVENTORY_AGENT_URL) = T1

C9_BranchNamedErrors ==
    (pc \in {"agent_response", "result", "done"} /\ TakenBranch = "both"
        /\ \A a \in AgentUrls : tasks[a].st = "done")
    => /\ Failed(INVENTORY_AGENT_URL)
          => /\ Names(responses.inventory, INVENTORY_AGENT_URL)
             /\ In(tasks[INVENTORY_AGENT_URL].outcome.reason, responses.inventory)
       /\ Failed(CUSTOMER_SERVICE_AGENT_URL)
          => /\ Names(responses.customer_service, CUSTOMER_SERVICE_AGENT_URL)
             /\ In(tasks[CUSTOMER_SERVICE_AGENT_URL].outcome.reason,
                   responses.customer_service)
       /\ SucceededWithText(INVENTORY_AGENT_URL)
          => responses.inventory = TextOf(INVENTORY_AGENT_URL)
       /\ SucceededWithText(CUSTOMER_SERVICE_AGENT_URL)
          => responses.customer_service = TextOf(CUSTOMER_SERVICE_AGENT_URL)

\* The run got as far as classifying and came out without a usable decision.
NoUsableDecision ==
    /\ pc = "done"
    /\ raised_at # "session"
    /\ TakenBranch \in {"none", "undetermined"}

-----------------------------------------------------------------------------
(* C11 .. C14 *)

CardLocal(a) == IF a = INVENTORY_AGENT_URL THEN inventory_card ELSE customer_service_card

\* The routing decision asks for a call to a.
Required(a) == TakenBranch = "both" \/ RoutedTo(a)

\* This run fetched the card of a and the fetch failed.
ProbeFailed(a) == Probe(a, FALSE) \in probed

\* stream() is past the branch on the routing decision.
AfterRoute ==
    /\ raised_at = ""
    /\ pc \in {"parallel", "gather", "call_inventory", "call_customer_service",
               "await_single", "agent_response", "result", "done"}

\* The message that tells the caller a is not available.
UnavailableEvent(a) ==
    CASE TakenBranch = "both" -> ErrParallelOffline
      [] a = INVENTORY_AGENT_URL -> ErrInventoryOffline
      [] OTHER -> ErrCustomerServiceOffline

\* C11: availability pre-check. When the card fetch of an endpoint the routing
\* decision requires has failed in this run, the run ends right after the routing
\* decision with the unavailability message for that branch as its only event after
\* the status (the task failed, nothing raised), and no call to that endpoint is
\* started or sent in this run.
C11_PreCheckSkipsCall ==
    \A a \in AgentUrls :
        (AfterRoute /\ Required(a) /\ ProbeFailed(a)) =>
            /\ pc = "done"
            /\ events = <<StatusAnalyzing, UnavailableEvent(a)>>
            /\ stream_outcome = "returned"
            /\ task_state = "failed"
            /\ CallsTo(a) = 0
            /\ tasks[a].st = "none"
            /\ \A i \in 1..Len(sent) : sent[i].url # a

C11_Witness ==
    /\ pc = "done"
    /\ TakenBranch = "inventory"
    /\ ProbeFailed(INVENTORY_AGENT_URL)
    /\ customer_service_card
    /\ LastEvent = ErrInventoryOffline
    /\ calls = <<>>

\* This run fetched the card of a and got it.
ProbeSucceeded(a) == Probe(a, TRUE) \in probed

\* stream() has assigned its local card of a in this run.
PastProbe(a) ==
    /\ raised_at # "session"
    /\ pc \notin {"idle", "rejected", "session", "probe_inv"}
    /\ a = CUSTOMER_SERVICE_AGENT_URL => pc # "probe_cs"

\* The call to a has been started if the routing decision was ever going to start it.
CallDue(a) ==
    \/ RoutedTo(a) /\ pc \in {"await_single", "agent_response", "result", "done"}
    \/ TakenBranch = "both" /\ pc \in {"agent_response", "result", "done"}

C12_State ==
    \A a \in AgentUrls :
        /\ ProbeFailed(a) => a \notin agent_cards /\ ~CardLocal(a)
        /\ ProbeSucceeded(a) => a \in agent_cards /\ CardLocal(a)
        /\ (PastProbe(a) /\ ~CardLocal(a)) => ProbeFailed(a)
        /\ (PastProbe(a) /\ a \in down_seen) => (CardLocal(a) <=> ~ProbeFailed(a))
        /\ (AfterRoute /\ Required(a) /\ a \in down_seen /\ ProbeSucceeded(a)
              /\ (TakenBranch = "both" => CardLocal(OtherAgent(a)))
              /\ CallDue(a)) => CallsTo(a) = 1

C12_Step ==
    \A a \in AgentUrls :
        (Probe(a, FALSE) \in probed' /\ Probe(a, FALSE) \notin probed)
            => agent_cards' = agent_cards

\* C12: the down state of an endpoint is never cached. A card fetch that fails
\* leaves the card cache as it was and the endpoint out of it; an endpoint is
\* treated as down in a run only when its card fetch failed in that very run; an
\* endpoint found down in an earlier run is fetched again, and once the fetch
\* succeeds the routed call to it is made.
C12_DownStateNotCached == [](C12_State) /\ [][C12_Step]_vars

C12_Witness ==
    /\ INVENTORY_AGENT_URL \in down_seen
    /\ ProbeSucceeded(INVENTORY_AGENT_URL)
    /\ TakenBranch = "inventory"
    /\ tasks[INVENTORY_AGENT_URL].st = "sent"
    /\ CallsTo(INVENTORY_AGENT_URL) = 1

\* The local card of a is a cached one: this run made no fetch for it.
StaleCard(a) ==
    /\ PastProbe(a)
    /\ CardLocal(a)
    /\ ~ProbeSucceeded(a) /\ ~ProbeFailed(a)

ResponseOf(a) ==
    IF a = INVENTORY_AGENT_URL THEN responses.inventory ELSE responses.customer_service

\* C13: the pre-check is not authoritative. When the card of an endpoint comes from
\* the cache of an earlier run (no fetch in this run) and the endpoint is down when
\* called, the call is still made, once, and fails as its own failure: it returns
\* the error text of that call, nothing is raised out of stream(), the run ends
\* with a result, and in the both route the other call is made and its text
\* reaches its own slot and the result unchanged.
C13_StaleCardFailsAtDispatch ==
    \A a \in AgentUrls :
        (StaleCard(a) /\ Failed(a)) =>
            /\ CallsTo(a) = 1
            /\ tasks[a].res = Return(<<"Error", "communicating", "with", "agent:",
                                        tasks[a].outcome.reason>>)
            /\ stream_outcome # "raised"
            /\ pc = "done" => EndedWithResult /\ task_state = "completed"
            /\ (TakenBranch = "both" /\ pc \in {"agent_response", "result", "done"}) =>
                    /\ ResponseOf(a) = tasks[a].res.val
                    /\ CallsTo(OtherAgent(a)) = 1
                    /\ SucceededWithText(OtherAgent(a)) =>
                            /\ ResponseOf(OtherAgent(a)) = TextOf(OtherAgent(a))
                            /\ pc = "done" => Contains(LastEvent.text, TextOf(OtherAgent(a)))

C13_Witness ==
    /\ pc = "done"
    /\ TakenBranch = "both"
    /\ StaleCard(CUSTOMER_SERVICE_AGENT_URL)
    /\ Failed(CUSTOMER_SERVICE_AGENT_URL)
    /\ ProbeSucceeded(INVENTORY_AGENT_URL)
    /\ SucceededWithText(INVENTORY_AGENT_URL)

\* The phase of a position of stream(): 1 classify (session, cards, status, routing
\* decision and the branch on it), 2 dispatch, 3 combine, 4 over; 0 outside a run.
Phase(p) ==
    CASE p \in {"session", "probe_inv", "probe_cs", "status", "classify", "route"} -> 1
      [] p \in {"parallel", "gather", "call_inventory", "call_customer_service",
                "await_single"} -> 2
      [] p \in {"agent_response", "result"} -> 3
      [] p = "done" -> 4
      [] OTHER -> 0

ResultEmitted == \E i \in 1..Len(events) : events[i].type = "result"

C14_State ==
    /\ (calls # <<>> \/ \E a \in AgentUrls : tasks[a].st # "none") =>
            /\ routing_decision # <<>>
            /\ Phase(pc) >= 2
            /\ Len(events) >= 2 /\ events[2].type = "routing"
    /\ Phase(pc) = 1 => calls = <<>> /\ sent = <<>>
    /\ (Phase(pc) >= 3 \/ ResultEmitted) =>
            \A a \in AgentUrls : tasks[a].st \in {"none", "done"}
    /\ ResultEmitted => pc = "done" /\ Len(calls) = Len(settle_order)
    /\ task_state \in {"none", "working", "completed", "failed"}

C14_Step ==
    /\ nqueries' = nqueries => Phase(pc') >= Phase(pc)
    /\ (cancel_rejected' /\ ~cancel_rejected) =>
            UNCHANGED <<pc, nqueries, agent_cards, sessions, query, session_id,
                        context_id, probed, down_seen, inventory_card,
                        customer_service_card, routing_decision, tasks, ready, calls,
                        sent, settle_order, responses, response, events,
                        stream_outcome, task_state, event_queue, raised_at>>

\* C14: within one request the handling goes through classify, dispatch and combine
\* in this order and never back to an earlier phase: no call is started or sent
\* before the routing decision is made and branched on, every started call is over
\* before the result is emitted, and a cancel() during the request is rejected and
\* changes nothing of the run or the task.
C14_PhaseOrder == [](C14_State) /\ [][C14_Step]_vars

C14_Witness ==
    /\ pc = "done"
    /\ cancel_rejected
    /\ TakenBranch = "both"
    /\ EndedWithResult
    /\ task_state = "completed"
    /\ Len(calls) = 2

-----------------------------------------------------------------------------
(* C15 .. C20 *)

\* The message is empty or made of blanks only.
BlankQuery == \A i \in 1..Len(message) : message[i] = " "

\* C15 as stated: for an empty or whitespace-only query, whatever classified it
\* answers customer service only.
C15_BlankIsCustomerService ==
    BlankQuery =>
        /\ predicted_agent # "" => predicted_agent = "customer service"
        /\ app_predicted_agent # "" => app_predicted_agent = "customer_service"

\* The last request came with an empty user input.
EmptyQueryAsked == nqueries > 0 /\ query = EmptyQuery

C17_PureClassifier ==
    \A s1, s2 \in SessionIds :
        \A i \in 1..Len(session_events[s1]), j \in 1..Len(session_events[s2]) :
            session_events[s1][i].query = session_events[s2][j].query
                => Branch(session_events[s1][i].answer) = Branch(session_events[s2][j].answer)

\* The message, letter case aside, holds one of the keywords.
Mentions(keywords) ==
    \E i \in 1..Len(keywords) : Contains(Lower(message), keywords[i])

MentionsAppWord == \E word \in app_inventory_words : Contains(Lower(message), word)

C19_CustomerServiceKeywordsOnly ==
    (Mentions(service_keywords) /\ ~Mentions(inventory_keywords)) =>
        /\ predicted_agent # "" => predicted_agent = "customer service"
        /\ app_predicted_agent # "" => app_predicted_agent = "customer_service"

C19_Witness ==
    /\ message = <<"o", "r", "d", "e", "r", " ", "h", "o", "u", "r", "s">>
    /\ predicted_agent = "customer service"
    /\ app_predicted_agent = "customer_service"

\* The message joins two parts with "and".
ConjunctionCue == Contains(Lower(message), <<" ", "a", "n", "d", " ">>)

\* C20 as stated: a message that holds keywords of both domains joined by a
\* conjunction cue is classified as both.
C20_BothDomainsWithCue ==
    (Mentions(inventory_keywords) /\ Mentions(service_keywords) /\ ConjunctionCue) =>
        /\ predicted_agent # "" => predicted_agent = "both"
        /\ app_predicted_agent # "" => app_predicted_agent = "both"

-----------------------------------------------------------------------------
(* C21 .. C30 *)

\* The last call of get_agent_status has returned.
StatusReturned == status_i = 0 /\ status_calls > 0

\* The line of the report for an agent called name, online or offline.
ReportLine(name, url, online) ==
    IF online
    THEN <<"OK">> \o name \o <<":", "Online", "-", "<description of>", url>>
    ELSE <<"X">> \o name \o <<":", "Offline">>

\* C21: get_agent_status reports each agent on its own. What it returns is the
\* header, then the line of the inventory agent, then the line of the customer
\* service agent; the line of an agent says Online exactly when the card of that
\* agent is available (cached or just fetched) and Offline otherwise, whatever the
\* other agent's state; every call returns.
C21_StatusPerAgent ==
    StatusReturned =>
        /\ Len(lines) = 3
        /\ lines[1] = <<"Agent", "Status:">>
        /\ lines[2] = ReportLine(<<"Inventory", "Agent">>, INVENTORY_AGENT_URL,
                                  INVENTORY_AGENT_URL \in agent_cards)
        /\ lines[3] = ReportLine(<<"Customer", "Service", "Agent">>,
                                  CUSTOMER_SERVICE_AGENT_URL,
                                  CUSTOMER_SERVICE_AGENT_URL \in agent_cards)
        /\ agent_status = lines[1] \o <<"\n">> \o lines[2] \o <<"\n">> \o lines[3]

C21_Witness ==
    /\ StatusReturned
    /\ In("Online", lines[2])
    /\ In("Offline", lines[3])
    /\ CUSTOMER_SERVICE_AGENT_URL \in down_seen
    /\ CUSTOMER_SERVICE_AGENT_URL \notin agent_cards

\* The positions of the terminal events among those the inventory stream yielded.
InvTerminals == {i \in 1..Len(inv_events) : inv_events[i].type \in {"result", "error"}}

InvStreamEnded == inv_pc = "done"

\* C22: a run of InventoryAgent.stream that has ended has exactly one terminal
\* event (result or error) and it is the last event; at no time is a terminal
\* event followed by another event; a result has the status event before it, and
\* every tool_call event comes after the status event and before the terminal one.
C22_OneTerminalEventLast ==
    /\ InvTerminals \subseteq {Len(inv_events)}
    /\ InvStreamEnded => InvTerminals = {Len(inv_events)} /\ inv_events # <<>>
    /\ \A i \in 1..Len(inv_events) :
          /\ inv_events[i].type = "result" =>
                \E j \in 1..(i - 1) : inv_events[j].type = "status"
          /\ inv_events[i].type = "tool_call" =>
                /\ \E j \in 1..(i - 1) : inv_events[j].type = "status"
                /\ \A j \in 1..(i - 1) : inv_events[j].type \notin {"result", "error"}

C22_Witness ==
    /\ InvStreamEnded
    /\ inv_events[Len(inv_events)].type = "result"
    /\ \E i \in 1..Len(inv_events) : inv_events[i].type = "tool_call"
    /\ inv_events[1].type = "status"

\* The last tool call, its backend answer and what the caller got.
LastToolCall == tool_call[1]

LastToolResult == tool_result[1]

\* C23: a tool function of the inventory agent never raises; when the backend
\* fails the caller gets status "error" with an error_message that holds the
\* cause; check_product_availability of an id that is in no document gives status
\* "error" with a not-found message naming the id; a search the backend answers
\* gives status "success" with total_count the number of products returned, one
\* per hit.
C23_ToolsNeverRaise ==
    tool_call # <<>> =>
        /\ ~LastToolResult.raised
        /\ LastToolCall.backend.raises =>
              /\ LastToolResult.dict.status = "error"
              /\ In(LastToolCall.backend.reason, LastToolResult.dict.error_message)
        /\ ( /\ LastToolCall.tool = "check_product_availability"
             /\ ~LastToolCall.backend.raises
             /\ GetById(LastToolCall.arg, LastToolCall.backend.hits) = <<>> ) =>
              /\ LastToolResult.dict.status = "error"
              /\ LastToolResult.dict.error_message
                    = <<"Product", LastToolCall.arg, "not", "found">>
        /\ ( /\ LastToolCall.tool = "search_products_by_query"
             /\ ~LastToolCall.backend.raises ) =>
              /\ LastToolResult.dict.status = "success"
              /\ LastToolResult.dict.total_count = Len(LastToolResult.dict.products)
              /\ Len(LastToolResult.dict.products) = Len(LastToolCall.backend.hits)

C23_Witness ==
    /\ tool_call # <<>>
    /\ LastToolCall.tool = "search_products_by_query"
    /\ LastToolCall.backend.raises
    /\ LastToolResult.dict.status = "error"
    /\ In("ReadTimeout", LastToolResult.dict.error_message)

\* The positions in the queue of the updates that end the task.
TerminalUpdates ==
    {i \in 1..Len(event_queue) : event_queue[i].state \in {"completed", "failed"}}

\* The updates of the queue after the task itself.
TaskUpdates == SelectSeq(event_queue, LAMBDA u : u.kind # "task")

\* C24: in a run of HostAgentExecutor.execute on a valid request the first update
\* of the task is working; a terminal update (completed or failed) is the last
\* thing enqueued, so there is at most one and no status update or artifact
\* follows it; a run that has ended has one. The task is completed exactly after a
\* result event, with exactly one artifact, which holds the result's content and
\* was enqueued just before the completion; it is failed after an error event or
\* an exception out of stream().
C24_WorkingThenOneTerminalState ==
    task_state # "none" =>
        /\ TaskUpdates # <<>> /\ TaskUpdates[1] = Update("status", "working", <<>>)
        /\ TerminalUpdates \subseteq {Len(event_queue)}
        /\ pc = "done" <=> TerminalUpdates # {}
        /\ task_state = (IF TerminalUpdates = {} THEN "working"
                         ELSE event_queue[Len(event_queue)].state)
        /\ task_state = "completed" =>
              /\ events # <<>> /\ LastEvent.type = "result"
              /\ Len(Artifacts) = 1
              /\ event_queue[Len(event_queue) - 1] = Update("artifact", "working", LastEvent.text)
        /\ task_state = "failed" =>
              /\ Artifacts = <<>>
              /\ \/ events # <<>> /\ LastEvent.type = "error"
                 \/ stream_outcome = "raised"
        /\ task_state = "working" => \A i \in 1..Len(events) :
                                        events[i].type \notin {"result", "error"}

C24_Witness ==
    /\ task_state = "completed"
    /\ Len(event_queue) > 3
    /\ event_queue[Len(event_queue) - 1].kind = "artifact"
    /\ event_queue[Len(event_queue)] = Update("status", "completed", <<>>)

CsFinalStates == {"completed", "failed", "input-required"}

\* C25: every run of CustomerServiceAgentExecutor.execute on a valid request
\* eventually moves the task out of working into a final state (completed,
\* failed or input-required).
C25_ExecuteReachesFinalState ==
    (cs_task_state = "working") ~> (cs_task_state \in CsFinalStates)

\* C26: a request without a message or with empty user input is rejected by each
\* of the three executors before anything happens: after the rejection there is no
\* task, nothing is enqueued and the stream has yielded nothing; the rejecting step
\* of the host touches neither its sessions nor its cards; and a run that goes on
\* has a non-empty user input.
C26_State ==
    /\ pc = "rejected" =>
          /\ task_state = "none" /\ event_queue = <<>> /\ events = <<>>
          /\ stream_outcome = "none" /\ calls = <<>>
    /\ inv_pc = "rejected" =>
          inv_task_state = "none" /\ inv_event_queue = <<>> /\ inv_events = <<>>
    /\ cs_pc = "rejected" =>
          cs_task_state = "none" /\ cs_event_queue = <<>> /\ cs_events = <<>>
    /\ pc \notin {"idle", "rejected"} => query # EmptyQuery
    /\ inv_pc \notin {"idle", "rejected"} => inv_query # EmptyQuery
    /\ cs_pc \notin {"idle", "rejected"} => cs_query # EmptyQuery

C26_Step ==
    (nqueries' = nqueries + 1 /\ pc' = "rejected") =>
        sessions' = sessions /\ agent_cards' = agent_cards

C26_InvalidRequestRejected == [](C26_State) /\ [][C26_Step]_vars

C26_Witness ==
    /\ cs_pc = "rejected"
    /\ cs_n = 2

\* The events of the run of the given types.
EventsOfType(types) == SelectSeq(events, LAMBDA ev : ev.type \in types)

\* C27: a both-routed query one of whose cards is missing at the pre-check makes no
\* downstream call to either agent, not to the reachable one either, and ends with
\* the offline error as its single error event: no routing, agent_response or
\* result event, no artifact, the task failed.
C27_BothNeedsBothCards ==
    ( /\ AfterRoute
      /\ TakenBranch = "both"
      /\ ~inventory_card \/ ~customer_service_card ) =>
        /\ pc = "done"
        /\ calls = <<>> /\ sent = <<>>
        /\ \A a \in AgentUrls : tasks[a].st = "none"
        /\ LastEvent = ErrParallelOffline
        /\ Len(EventsOfType({"error"})) = 1
        /\ EventsOfType({"routing", "agent_response", "result"}) = <<>>
        /\ Artifacts = <<>>
        /\ task_state = "failed"

C27_Witness ==
    /\ AfterRoute
    /\ TakenBranch = "both"
    /\ inventory_card /\ ~customer_service_card
    /\ LastEvent = ErrParallelOffline

\* The error events stream() yields without having dispatched a call.
OfflineErrors == {ErrParallelOffline, ErrInventoryOffline, ErrCustomerServiceOffline}

UndeterminedErrors == {ErrUnableToDetermine, ErrCouldNotDetermine}

Present(token) ==
    /\ routing_decision # <<>>
    /\ \E i \in 1..Len(routing_decision[1]) : routing_decision[1][i] = token

\* What stream() yielded for the routing decision: its first routing or error event.
RouteEvent == EventsOfType({"routing", "error"})[1]

\* The endpoints called in this run.
CalledUrls == {calls[i].url : i \in 1..Len(calls)}

\* C29: the routing tokens are looked for anywhere in the decision text, in the
\* order ROUTE_TO_BOTH, ROUTE_TO_INVENTORY, ROUTE_TO_CUSTOMER_SERVICE: the one
\* branch taken is that of the first of them that is present, whatever else the
\* text holds, and only its agents are called; a text with none of the tokens
\* gives a could-not-determine error and no call.
C29_TokenPriority ==
    AfterRoute =>
        /\ Len(EventsOfType({"routing"})) <= 1
        /\ CASE Present(ROUTE_TO_BOTH) ->
                    RouteEvent \in {RoutingBoth, ErrParallelOffline}
             [] Present(ROUTE_TO_INVENTORY) ->
                    /\ RouteEvent \in {RoutingInventory, ErrInventoryOffline}
                    /\ CalledUrls \subseteq {INVENTORY_AGENT_URL}
             [] Present(ROUTE_TO_CUSTOMER_SERVICE) ->
                    /\ RouteEvent \in {RoutingCustomerService, ErrCustomerServiceOffline}
                    /\ CalledUrls \subseteq {CUSTOMER_SERVICE_AGENT_URL}
             [] OTHER ->
                    /\ RouteEvent \in UndeterminedErrors
                    /\ CalledUrls = {}

C29_Witness ==
    /\ AfterRoute
    /\ Present(ROUTE_TO_INVENTORY) /\ Present(ROUTE_TO_CUSTOMER_SERVICE)
    /\ RouteEvent = RoutingInventory
    /\ CalledUrls = {INVENTORY_AGENT_URL}

\* The step handles a line that is a command.
CommandStep == cli_n' = cli_n + 1 /\ IsCommand(cli_input')

\* C30: in the CLI client the current agent is always one of the configured agent
\* names, and every message went to such a name, so A2AManager.send_to_agent never
\* raised its ValueError; a /switch to a name that is not configured leaves the
\* current agent as it was, and of all commands only /quit ends the loop.
C30_State ==
    /\ current_agent \in agent_urls
    /\ \A i \in 1..Len(cli_sends) :
          cli_sends[i].agent \in agent_urls /\ cli_sends[i].outcome # "ValueError"

C30_Step ==
    /\ (CommandStep /\ ~cli_running') => cli_input' = <<"/quit">>
    /\ (CommandStep /\ cli_input' = <<"/quit">>) => ~cli_running'
    /\ (CommandStep /\ IsSwitch(cli_input') /\ ~Known(Tail(cli_input')))
          => current_agent' = current_agent
    /\ current_agent' # current_agent
          => CommandStep /\ cli_input' = <<"/switch", current_agent'>>

C30_CurrentAgentConfigured == [](C30_State) /\ [][C30_Step]_vars

C30_Witness ==
    /\ cli_input = <<"hello">>
    /\ cli_n = 3
    /\ current_agent = "inventory"
    /\ Len(cli_sends) = 1
    /\ cli_sends[1].agent = "inventory"

====
